---- MODULE Spec2Model ----
(***************************************************************************)
(* ScreenSense: the session object (browser handle, context, tabs) of      *)
(* core/client.ts and the default screen processor of                      *)
(* core/eyes/processors/claudeScreenProcessor.ts.                          *)
(*                                                                         *)
(* Every async method is cut at its awaits: one action runs the code from  *)
(* the call (or from the resumption of an await) up to the next await, the *)
(* return or the throw.  The driver (playwright) and the vision backend    *)
(* are the environment: each awaited call either resolves or rejects.      *)
(***************************************************************************)
EXTENDS Integers, Sequences, FiniteSets, TLC

\* ------------------------------------------------------------------ bounds
MaxCalls == 1        \* call slots of a caller that awaits every call
MaxConcObjects == 5  \* objects handed out while calls overlap
MaxTabId == 3        \* tab ids are allocated while tabIdCounter < MaxTabId
MaxObjects == 7      \* driver objects (browsers, contexts, pages) created
MaxProcCalls == 3    \* process() invocations made on the processor
MaxKeyCalls == 2     \* normalizeKey calls kept in keyCalls

Slots == 1..MaxCalls
\* Call slots of a caller that does not await: one more call may be in flight.
ConcSlots == 1..(MaxCalls + 1)
Urls == {"https://a", "https://b"}
Titles == {"Test Page"}
TabIds == 0..MaxTabId

\* --------------------------------------------------------------- the state
VARIABLES
    config,        \* ScreenSense.config (fixed at construction)
    browser,       \* ScreenSense.browser: 0 is null, else the handle
    context,       \* ScreenSense.context: 0 is null, else the context
    currentTab,    \* ScreenSense.currentTab: NoTab is null
    otherTabs,     \* ScreenSense.otherTabs
    tabIdCounter,  \* ScreenSense.tabIdCounter
    objCtr,        \* driver: number of objects handed out so far
    allocated,     \* every value generateTabId has returned, in order
    closedHandles, \* driver: the browser handles whose close() has resolved
    calls,         \* the invocations in flight and their position
    scenario,      \* progress of openTab(a); openTab(b); getTabs() among the
                   \* most recent completed invocations
    apiKey,        \* ClaudeScreenProcessor.config.apiKey ("" when none)
    cachedResults, \* ClaudeScreenProcessor.cachedResults
    pcalls,        \* the process() invocations in flight and their position
    keyLog,        \* per (screenshot prefix, instruction): how each completed
                   \* process() call for it ended, oldest first
    registry,      \* ScreenProcessorFactory.registry (own properties)
    constructed,   \* number of ClaudeScreenProcessor instances the factory
                   \* has constructed
    fcall,         \* the most recent call on the factory
    replaced,      \* per name: the processor that the latest
                   \* registerScreenProcessor under that name overwrote
    keyCalls       \* the latest normalizeKey calls, oldest first

vars == <<config, browser, context, currentTab, otherTabs, tabIdCounter,
          objCtr, allocated, closedHandles, calls, scenario,
          apiKey, cachedResults, pcalls, keyLog,
          registry, constructed, fcall, replaced, keyCalls>>

procVars == <<apiKey, cachedResults, pcalls, keyLog>>

registryVars == <<registry, constructed, fcall, replaced>>

clientVars == <<config, browser, context, currentTab, otherTabs, tabIdCounter,
                objCtr, allocated, closedHandles, calls, scenario>>

sessionVars == <<browser, context, currentTab, otherTabs, tabIdCounter>>

\* ------------------------------------------------------------------- types
NoTab == [id |-> -1, page |-> 0, title |-> ""]

Tab(id, page, title) == [id |-> id, page |-> page, title |-> title]

\* ScreenSenseConfig.browserSettings: absent, remote {wssUrl?, cdpUrl?} or
\* local {localChromePath?, proxy?}; "" is an absent optional field.
Configs ==
    { [type |-> "none",   wssUrl |-> "", cdpUrl |-> "", localChromePath |-> "", proxy |-> ""],
      [type |-> "remote", wssUrl |-> "", cdpUrl |-> "http://x", localChromePath |-> "", proxy |-> ""],
      [type |-> "remote", wssUrl |-> "wss://x", cdpUrl |-> "http://x", localChromePath |-> "", proxy |-> ""],
      [type |-> "remote", wssUrl |-> "", cdpUrl |-> "", localChromePath |-> "", proxy |-> ""],
      [type |-> "local",  wssUrl |-> "", cdpUrl |-> "", localChromePath |-> "/chrome", proxy |-> "http://proxy"] }

\* What an observer of the session object sees.
Snapshot == [browser |-> browser, context |-> context, currentTab |-> currentTab,
             otherTabs |-> otherTabs, tabIdCounter |-> tabIdCounter]

\* One driver call: method, receiver object (0: the chromium namespace),
\* string argument ("" when none).
DriverCall(m, obj, arg) == [m |-> m, obj |-> obj, arg |-> arg]

\* One call on a page's mouse, keyboard or screenshot method: method,
\* receiver page, string argument ("" when none), numeric arguments (0 when
\* none).
PageCall(m, page, arg, x, y) == [m |-> m, obj |-> page, arg |-> arg, x |-> x, y |-> y]

\* The arguments of an input primitive or of getCoordinates; <<>> is an
\* absent coordinate pair, 0 an absent duration.
NoArgs ==
    [coordinates |-> <<>>, holdKeys |-> <<>>, button |-> "", clickType |-> "",
     numClicks |-> 0, path |-> <<>>, deltaX |-> 0, deltaY |-> 0,
     keys |-> <<>>, duration |-> 0, text |-> "", instruction |-> ""]

IdleCall ==
    [op |-> "none", pc |-> "idle", url |-> "", tabId |-> -1,
     page |-> 0, id |-> -1, status |-> "none", err |-> "",
     retTab |-> NoTab, retTabs |-> <<>>, retShot |-> "", retElements |-> <<>>,
     args |-> NoArgs, plan |-> <<>>, k |-> 0,
     log |-> <<>>, pre |-> [browser |-> 0, context |-> 0, currentTab |-> NoTab,
                            otherTabs |-> <<>>, tabIdCounter |-> 0]]

\* ----------------------------------------------------------------- helpers
\* generateTabId(): `return this.tabIdCounter++` - the value returned ...
generateTabId_zero(counter) == 0

generateTabId(counter) == counter

\* ... and the counter it leaves behind.
NextTabIdCounter_reused(counter) == counter

NextTabIdCounter(counter) == counter + 1

\* Array.prototype.findIndex(tab => tab.id === tabId): first match, 0 if none
\* (sequences are 1-based, so 0 plays the part of -1).
findIndex_lastWhenMissing(tabs, tabId) ==
    IF \E i \in 1..Len(tabs) : tabs[i].id = tabId
    THEN CHOOSE i \in 1..Len(tabs) :
            /\ tabs[i].id = tabId
            /\ \A j \in 1..(i - 1) : tabs[j].id # tabId
    ELSE Len(tabs)

findIndex(tabs, tabId) ==
    IF \E i \in 1..Len(tabs) : tabs[i].id = tabId
    THEN CHOOSE i \in 1..Len(tabs) :
            /\ tabs[i].id = tabId
            /\ \A j \in 1..(i - 1) : tabs[j].id # tabId
    ELSE 0

\* Array.prototype.splice(i, 1): the array without its i-th element.
splice(tabs, i) == SubSeq(tabs, 1, i - 1) \o SubSeq(tabs, i + 1, Len(tabs))

\* Array.prototype.push
push_unshift(tabs, tab) == <<tab>> \o tabs

push(tabs, tab) == Append(tabs, tab)

\* getTabs(): a copy of otherTabs with the current tab unshifted onto it.
getTabs_currentLast(cur, others) == IF cur # NoTab THEN others \o <<cur>> ELSE others

getTabs_othersOnly(cur, others) == others

getTabs(cur, others) == IF cur # NoTab THEN <<cur>> \o others ELSE others

\* ------------------------------------------------------- call bookkeeping
Quiet == \A c \in DOMAIN calls : calls[c].pc \in {"idle", "done"}

\* A new invocation takes the lowest slot that is not in flight.
FreeSlot(c) ==
    /\ calls[c].pc \in {"idle", "done"}
    /\ \A d \in DOMAIN calls : d < c => calls[d].pc \notin {"idle", "done"}

NewCall(op) == [IdleCall EXCEPT !.op = op, !.status = "pending", !.pre = Snapshot]

\* The scenario of the tab tests, followed through the completed calls:
\* step 1 after a successful openNewTab("https://a"), step 2 when a
\* successful openNewTab("https://b") comes next, step 3 when getTabs()
\* comes next; any other completed call starts over.  beforeCur and
\* beforeOthers are the tabs the session held when the first call was made.
NoScenario == [step |-> 0, tabA |-> NoTab, tabB |-> NoTab,
               beforeCur |-> NoTab, beforeOthers |-> <<>>]

Follow(rec) ==
    IF rec.op = "openTab" /\ rec.status = "ok" /\ rec.url = "https://a"
    THEN [step |-> 1, tabA |-> rec.retTab, tabB |-> NoTab,
          beforeCur |-> rec.pre.currentTab, beforeOthers |-> rec.pre.otherTabs]
    ELSE IF scenario.step = 1 /\ rec.op = "openTab" /\ rec.status = "ok"
            /\ rec.url = "https://b"
    THEN [scenario EXCEPT !.step = 2, !.tabB = rec.retTab]
    ELSE IF scenario.step = 2 /\ rec.op = "getTabs"
    THEN [scenario EXCEPT !.step = 3]
    ELSE NoScenario

\* The invocation in slot c moves on to its next await.
Await(c, rec) ==
    /\ calls' = [calls EXCEPT ![c] = rec]
    /\ scenario' = scenario
    /\ UNCHANGED <<procVars, registryVars, keyCalls>>

\* The invocation in slot c returns or throws.
Finish(c, rec) ==
    LET r == [rec EXCEPT !.pc = "done"] IN
    /\ calls' = [calls EXCEPT ![c] = r]
    /\ scenario' = Follow(r)
    /\ UNCHANGED <<procVars, registryVars, keyCalls>>

Returned(rec) == [rec EXCEPT !.status = "ok"]

Thrown(rec, msg) == [rec EXCEPT !.status = "err", !.err = msg]

Logged(rec, m, obj, arg) == [rec EXCEPT !.log = Append(@, DriverCall(m, obj, arg))]

\* ------------------------------------------------- the default processor
\* Screenshots are base64 strings.  Two of them are longer than the cache
\* key's prefix: they agree on their first 100 characters and differ after
\* them.  The short ones differ within the prefix and are used whole (the
\* test environment's screenshot is such a string).
Pad98 == "AAAAAAAAAAAAAAAAAAAAAAAAAAAAAAAAAAAAAAAAAAAAAAAAAAAAAAAAAAAAAAAAAAAAAAAAAAAAAAAAAAAAAAAAAAAAAAAAAA"

Screenshots ==
    { Pad98 \o "xyP", Pad98 \o "xyQ", "s", "s_click" }

Instructions == { "ok", "click_ok" }

\* JSON values, as JSON.parse produces them.
JNum(n) == [t |-> "num", v |-> n]
JStr(str) == [t |-> "str", v |-> str]
JArr(seq) == [t |-> "arr", v |-> seq]
JObj(fields) == [t |-> "obj", v |-> fields]

\* The text of a text block: either not JSON at all, or the JSON text of a
\* value.
Malformed == [wf |-> FALSE, value |-> JStr("")]
JsonText(value) == [wf |-> TRUE, value |-> value]

SearchBox == JObj([description |-> JStr("Search box"),
                   coordinate |-> JArr(<<JNum(100), JNum(200)>>)])
SubmitButton == JObj([description |-> JStr("Submit button"),
                      coordinate |-> JArr(<<JNum(300), JNum(200)>>),
                      confidence |-> JNum(1)])

TextOneElement == JsonText(JArr(<<SearchBox>>))
TextTwoElements == JsonText(JArr(<<SubmitButton, SearchBox>>))
TextNoElements == JsonText(JArr(<<>>))
TextNotAnArray == JsonText(SearchBox)
TextNoCoordinate == JsonText(JArr(<<SearchBox, JObj([description |-> JStr("Menu")])>>))
TextLongCoordinate ==
    JsonText(JArr(<<JObj([description |-> JStr("Menu"),
                          coordinate |-> JArr(<<JNum(50), JNum(50), JNum(0)>>)])>>))
TextStringCoordinate ==
    JsonText(JArr(<<JObj([description |-> JStr("Menu"),
                          coordinate |-> JArr(<<JStr("50"), JNum(50)>>)])>>))
TextNumberDescription ==
    JsonText(JArr(<<JObj([description |-> JNum(7),
                          coordinate |-> JArr(<<JNum(50), JNum(50)>>)])>>))

\* Content blocks of a response.
TextBlock(text) == [type |-> "text", text |-> text]
ToolUseBlock == [type |-> "tool_use", text |-> Malformed]

\* What client.beta.messages.create settles with: a rejection, or a
\* response whose content is a list of blocks.
Rejection == [rejected |-> TRUE, content |-> <<>>]
Response(content) == [rejected |-> FALSE, content |-> content]

Outcomes ==
    { Rejection,
      Response(<<>>),
      Response(<<ToolUseBlock>>),
      Response(<<TextBlock(TextOneElement)>>),
      Response(<<TextBlock(TextNoElements)>>),
      Response(<<TextBlock(Malformed)>>),
      Response(<<TextBlock(TextNotAnArray)>>),
      Response(<<TextBlock(TextNoCoordinate)>>),
      Response(<<TextBlock(TextLongCoordinate)>>),
      Response(<<TextBlock(TextStringCoordinate)>>),
      Response(<<TextBlock(TextNumberDescription)>>),
      Response(<<ToolUseBlock, TextBlock(TextTwoElements)>>),
      Response(<<TextBlock(Malformed), TextBlock(TextOneElement)>>),
      Response(<<TextBlock(TextOneElement), TextBlock(Malformed)>>) }

\* The first 100 characters of a screenshot.
PrefixLen == 100

Prefix(screenshot) ==
    IF Len(screenshot) <= PrefixLen THEN screenshot ELSE SubSeq(screenshot, 1, PrefixLen)

Pairs == { <<Prefix(sc), ins>> : sc \in Screenshots, ins \in Instructions }

IdleProcess ==
    [pc |-> "idle", screenshot |-> "", instruction |-> "", cacheKey |-> "",
     status |-> "none", ret |-> <<>>, invoked |-> FALSE,
     outcome |-> Rejection, ending |-> "none", hadEntry |-> FALSE]

\* -------------------------------------------- the screen processor factory
MaxConstructed == 2  \* default processors the factory constructs

\* Processor names: the empty string, two names that differ only in letter
\* case, and a name that Object.prototype also defines.
ProcessorNames == { "", "alt", "Alt", "constructor" }

\* Values a lookup in the registry can yield: a processor a caller made
\* and registered, the n-th ClaudeScreenProcessor the factory constructed,
\* a member inherited from Object.prototype, or undefined.
CustomProcessor(n) == [kind |-> "custom", id |-> n]
ClaudeProcessor(n) == [kind |-> "claude", id |-> n]
InheritedMember == [kind |-> "inherited", id |-> 0]
Undefined == [kind |-> "undefined", id |-> 0]

CustomProcessors == { CustomProcessor(1), CustomProcessor(2) }

NoFactoryCall ==
    [op |-> "none", given |-> FALSE, name |-> "", processor |-> Undefined,
     ret |-> Undefined, pre |-> <<>>]

\* -------------------------------------------------------------------- Init
\* A session as constructed, next to a processor that was constructed with a
\* credential.
Init ==
    /\ config \in Configs
    /\ browser = 0
    /\ context = 0
    /\ currentTab = NoTab
    /\ otherTabs = <<>>
    /\ tabIdCounter = 0
    /\ objCtr = 0
    /\ allocated = <<>>
    /\ closedHandles = {}
    /\ calls = [c \in Slots |-> IdleCall]
    /\ scenario = NoScenario
    /\ apiKey = "sk-ant-key"
    /\ cachedResults = <<>>
    /\ pcalls = [c \in Slots |-> IdleProcess]
    /\ keyLog = [pr \in Pairs |-> <<>>]
    /\ registry = <<>>
    /\ constructed = 0
    /\ fcall = NoFactoryCall
    /\ replaced = <<>>
    /\ keyCalls = <<>>

\* ------------------------------------------------------------ startBrowser
\* The call itself: runs up to `await import('playwright')`.
StartBegin(c) ==
    /\ FreeSlot(c)
    /\ tabIdCounter < MaxTabId
    /\ objCtr + 3 <= MaxObjects
    /\ Await(c, [NewCall("start") EXCEPT !.pc = "import"])
    /\ UNCHANGED <<config, closedHandles, sessionVars, objCtr, allocated>>

\* Which acquisition call the settings select, given this.browser:
\* "connect", "connectOverCDP", "launch" (with options), "launchDefault",
\* or "skip" when this.browser is already set and nothing is awaited.
Acquisition_localIsDefault(cfg, b) ==
    IF cfg.type = "remote" /\ cfg.wssUrl # "" THEN "connect"
    ELSE IF cfg.type = "remote" /\ cfg.cdpUrl # "" THEN "connectOverCDP"
    ELSE IF b = 0 THEN "launchDefault"
    ELSE "skip"

Acquisition(cfg, b) ==
    IF cfg.type = "remote" /\ cfg.wssUrl # "" THEN "connect"
    ELSE IF cfg.type = "remote" /\ cfg.cdpUrl # "" THEN "connectOverCDP"
    ELSE IF cfg.type = "local" /\ b = 0 THEN "launch"
    ELSE IF b = 0 THEN "launchDefault"
    ELSE "skip"

AcquisitionArg(cfg, how) ==
    IF how = "connect" THEN cfg.wssUrl
    ELSE IF how = "connectOverCDP" THEN cfg.cdpUrl
    ELSE IF how = "launch" THEN cfg.localChromePath
    ELSE ""

\* The acquisition call as the driver sees it: chromium.launch(launchOptions)
\* also carries proxy: {server: proxy}.
AcquisitionCall(cfg, how) ==
    IF how = "launch"
    THEN [m |-> how, obj |-> 0, arg |-> AcquisitionArg(cfg, how), proxy |-> cfg.proxy]
    ELSE DriverCall(how, 0, AcquisitionArg(cfg, how))

\* The import settled; on success pick the acquisition call and await it,
\* or go straight on to browser.newContext when no acquisition is due.
StartImported(c, ok) ==
    /\ calls[c].op = "start" /\ calls[c].pc = "import"
    /\ LET how == Acquisition(config, browser) IN
       IF ~ok
       THEN Finish(c, Thrown(calls[c], "import failed"))
       ELSE IF how = "skip"
       THEN Await(c, Logged([calls[c] EXCEPT !.pc = "newContext"],
                            "newContext", browser, ""))
       ELSE Await(c, [calls[c] EXCEPT !.pc = "acquire",
                                      !.log = Append(@, AcquisitionCall(config, how))])
    /\ UNCHANGED <<config, closedHandles, sessionVars, objCtr, allocated>>

\* connect / connectOverCDP / launch settled.
StartAcquired(c, ok) ==
    /\ calls[c].op = "start" /\ calls[c].pc = "acquire"
    /\ ok => objCtr < MaxObjects
    /\ IF ok
       THEN /\ browser' = objCtr + 1
            /\ objCtr' = objCtr + 1
            /\ Await(c, Logged([calls[c] EXCEPT !.pc = "newContext"],
                               "newContext", objCtr + 1, ""))
       ELSE /\ Finish(c, Thrown(calls[c], "acquire failed"))
            /\ UNCHANGED <<browser, objCtr>>
    /\ UNCHANGED <<config, closedHandles, context, currentTab, otherTabs, tabIdCounter, allocated>>

\* browser.newContext settled.
StartContext(c, ok) ==
    /\ calls[c].op = "start" /\ calls[c].pc = "newContext"
    /\ ok => objCtr < MaxObjects
    /\ IF ok
       THEN /\ context' = objCtr + 1
            /\ objCtr' = objCtr + 1
            /\ Await(c, Logged([calls[c] EXCEPT !.pc = "newPage"],
                               "newPage", objCtr + 1, ""))
       ELSE /\ Finish(c, Thrown(calls[c], "newContext failed"))
            /\ UNCHANGED <<context, objCtr>>
    /\ UNCHANGED <<config, closedHandles, browser, currentTab, otherTabs, tabIdCounter, allocated>>

\* context.newPage settled; on success the tab literal starts to be built:
\* id: this.generateTabId() is evaluated before page.title() is awaited.
StartPage(c, ok) ==
    /\ calls[c].op = "start" /\ calls[c].pc = "newPage"
    /\ ok => (objCtr < MaxObjects /\ tabIdCounter < MaxTabId)
    /\ IF ok
       THEN /\ objCtr' = objCtr + 1
            /\ tabIdCounter' = NextTabIdCounter(tabIdCounter)
            /\ allocated' = Append(allocated, generateTabId(tabIdCounter))
            /\ Await(c, Logged([calls[c] EXCEPT !.pc = "title",
                                                !.page = objCtr + 1,
                                                !.id = generateTabId(tabIdCounter)],
                               "title", objCtr + 1, ""))
       ELSE /\ Finish(c, Thrown(calls[c], "newPage failed"))
            /\ UNCHANGED <<objCtr, tabIdCounter, allocated>>
    /\ UNCHANGED <<config, closedHandles, browser, context, currentTab, otherTabs>>

\* page.title settled; on success this.currentTab is assigned.
StartTitle(c, ok, title) ==
    /\ calls[c].op = "start" /\ calls[c].pc = "title"
    /\ IF ok
       THEN /\ currentTab' = Tab(calls[c].id, calls[c].page, title)
            /\ Finish(c, Returned(calls[c]))
       ELSE /\ Finish(c, Thrown(calls[c], "title failed"))
            /\ UNCHANGED currentTab
    /\ UNCHANGED <<config, closedHandles, browser, context, otherTabs, tabIdCounter, objCtr, allocated>>

\* ------------------------------------------------------------ closeBrowser
CloseBegin_unguarded(c) ==
    /\ FreeSlot(c)
    /\ Await(c, Logged([NewCall("close") EXCEPT !.pc = "close"],
                       "close", browser, ""))
    /\ UNCHANGED <<config, closedHandles, sessionVars, objCtr, allocated>>

\* `if (this.browser)`: only a session holding a handle awaits its close().
CloseBegin(c) ==
    /\ FreeSlot(c)
    /\ IF browser # 0
       THEN Await(c, Logged([NewCall("close") EXCEPT !.pc = "close"],
                            "close", browser, ""))
       ELSE Finish(c, Returned(NewCall("close")))
    /\ UNCHANGED <<config, closedHandles, sessionVars, objCtr, allocated>>

\* browser.close settled.
CloseDone_keepsOthers(c, ok) ==
    /\ calls[c].op = "close" /\ calls[c].pc = "close"
    /\ IF ok
       THEN /\ browser' = 0
            /\ context' = 0
            /\ currentTab' = NoTab
            /\ closedHandles' = closedHandles \cup {calls[c].log[1].obj}
            /\ Finish(c, Returned(calls[c]))
            /\ UNCHANGED otherTabs
       ELSE /\ Finish(c, Thrown(calls[c], "close failed"))
            /\ UNCHANGED <<browser, context, currentTab, otherTabs, closedHandles>>
    /\ UNCHANGED <<config, tabIdCounter, objCtr, allocated>>

CloseDone_clearsOnFailure(c, ok) ==
    /\ calls[c].op = "close" /\ calls[c].pc = "close"
    /\ browser' = 0
    /\ context' = 0
    /\ currentTab' = NoTab
    /\ otherTabs' = <<>>
    /\ IF ok
       THEN /\ closedHandles' = closedHandles \cup {calls[c].log[1].obj}
            /\ Finish(c, Returned(calls[c]))
       ELSE /\ Finish(c, Thrown(calls[c], "close failed"))
            /\ UNCHANGED closedHandles
    /\ UNCHANGED <<config, tabIdCounter, objCtr, allocated>>

CloseDone(c, ok) ==
    /\ calls[c].op = "close" /\ calls[c].pc = "close"
    /\ IF ok
       THEN /\ browser' = 0
            /\ context' = 0
            /\ currentTab' = NoTab
            /\ otherTabs' = <<>>
            /\ closedHandles' = closedHandles \cup {calls[c].log[1].obj}
            /\ Finish(c, Returned(calls[c]))
       ELSE /\ Finish(c, Thrown(calls[c], "close failed"))
            /\ UNCHANGED <<browser, context, currentTab, otherTabs, closedHandles>>
    /\ UNCHANGED <<config, tabIdCounter, objCtr, allocated>>

\* ----------------------------------------------------------------- getTabs
GetTabs(c) ==
    /\ FreeSlot(c)
    /\ Finish(c, Returned([NewCall("getTabs") EXCEPT
                              !.retTabs = getTabs(currentTab, otherTabs)]))
    /\ UNCHANGED <<config, closedHandles, sessionVars, objCtr, allocated>>

\* -------------------------------------------------------------- openNewTab
OpenBegin_unguarded(c, url) ==
    /\ FreeSlot(c)
    /\ tabIdCounter < MaxTabId
    /\ objCtr + 1 <= MaxObjects
    /\ Await(c, Logged([NewCall("openTab") EXCEPT !.url = url, !.pc = "newPage"],
                       "newPage", context, ""))
    /\ UNCHANGED <<config, closedHandles, sessionVars, objCtr, allocated>>

\* `if (!this.context) throw`, else the call runs up to
\* `await this.context.newPage()`.
OpenBegin(c, url) ==
    /\ FreeSlot(c)
    /\ tabIdCounter < MaxTabId
    /\ objCtr + 1 <= MaxObjects
    /\ LET call == [NewCall("openTab") EXCEPT !.url = url] IN
       IF context = 0
       THEN Finish(c, Thrown(call, "No browser context available to open new tab"))
       ELSE Await(c, Logged([call EXCEPT !.pc = "newPage"], "newPage", context, ""))
    /\ UNCHANGED <<config, closedHandles, sessionVars, objCtr, allocated>>

\* context.newPage settled; on success page.goto(url) is awaited.
OpenPage(c, ok) ==
    /\ calls[c].op = "openTab" /\ calls[c].pc = "newPage"
    /\ ok => objCtr < MaxObjects
    /\ IF ok
       THEN /\ objCtr' = objCtr + 1
            /\ Await(c, Logged([calls[c] EXCEPT !.pc = "goto", !.page = objCtr + 1],
                               "goto", objCtr + 1, calls[c].url))
       ELSE /\ Finish(c, Thrown(calls[c], "newPage failed"))
            /\ UNCHANGED objCtr
    /\ UNCHANGED <<config, closedHandles, sessionVars, allocated>>

\* page.goto settled; on success the current tab is pushed onto otherTabs,
\* the id of the new tab is generated and page.title() is awaited.
OpenGoto(c, ok) ==
    /\ calls[c].op = "openTab" /\ calls[c].pc = "goto"
    /\ ok => tabIdCounter < MaxTabId
    /\ IF ok
       THEN /\ otherTabs' = IF currentTab # NoTab THEN push(otherTabs, currentTab)
                                                  ELSE otherTabs
            /\ tabIdCounter' = NextTabIdCounter(tabIdCounter)
            /\ allocated' = Append(allocated, generateTabId(tabIdCounter))
            /\ Await(c, Logged([calls[c] EXCEPT !.pc = "title",
                                                !.id = generateTabId(tabIdCounter)],
                               "title", calls[c].page, ""))
       ELSE /\ Finish(c, Thrown(calls[c], "goto failed"))
            /\ UNCHANGED <<otherTabs, tabIdCounter, allocated>>
    /\ UNCHANGED <<config, closedHandles, browser, context, currentTab, objCtr>>

\* page.title settled; on success this.currentTab is assigned and returned.
OpenTitle(c, ok, title) ==
    /\ calls[c].op = "openTab" /\ calls[c].pc = "title"
    /\ IF ok
       THEN LET tab == Tab(calls[c].id, calls[c].page, title) IN
            /\ currentTab' = tab
            /\ Finish(c, Returned([calls[c] EXCEPT !.retTab = tab]))
       ELSE /\ Finish(c, Thrown(calls[c], "title failed"))
            /\ UNCHANGED currentTab
    /\ UNCHANGED <<config, closedHandles, browser, context, otherTabs, tabIdCounter, objCtr, allocated>>

\* --------------------------------------------------------------- switchTab
\* The lines before the await: find, splice, push, assign, bringToFront().
SwitchBegin(c, tabId) ==
    /\ FreeSlot(c)
    /\ LET call == [NewCall("switchTab") EXCEPT !.tabId = tabId]
           tabIndex == findIndex(otherTabs, tabId)
       IN
       IF tabIndex = 0
       THEN /\ Finish(c, Thrown(call, "Tab with ID not found"))
            /\ UNCHANGED <<currentTab, otherTabs>>
       ELSE LET tabToSwitchTo == otherTabs[tabIndex]
                removed == splice(otherTabs, tabIndex)
            IN
            /\ otherTabs' = IF currentTab # NoTab THEN push(removed, currentTab)
                                                  ELSE removed
            /\ currentTab' = tabToSwitchTo
            /\ Await(c, Logged([call EXCEPT !.pc = "bringToFront"],
                               "bringToFront", tabToSwitchTo.page, ""))
    /\ UNCHANGED <<config, closedHandles, browser, context, tabIdCounter, objCtr, allocated>>

\* bringToFront settled; on success `return this.currentTab`.
SwitchFront(c, ok) ==
    /\ calls[c].op = "switchTab" /\ calls[c].pc = "bringToFront"
    /\ IF ok
       THEN Finish(c, Returned([calls[c] EXCEPT !.retTab = currentTab]))
       ELSE Finish(c, Thrown(calls[c], "bringToFront failed"))
    /\ UNCHANGED <<config, closedHandles, sessionVars, objCtr, allocated>>

\* ------------------------------------------------- the session, call by call
\* The caller issues one call at a time: a new call starts only when no
\* other is in flight.
Next ==
    \/ \E c \in Slots : Quiet /\ StartBegin(c)
    \/ \E c \in Slots, ok \in BOOLEAN : StartImported(c, ok)
    \/ \E c \in Slots, ok \in BOOLEAN : StartAcquired(c, ok)
    \/ \E c \in Slots, ok \in BOOLEAN : StartContext(c, ok)
    \/ \E c \in Slots, ok \in BOOLEAN : StartPage(c, ok)
    \/ \E c \in Slots, ok \in BOOLEAN, t \in Titles : StartTitle(c, ok, t)
    \/ \E c \in Slots : Quiet /\ CloseBegin(c)
    \/ \E c \in Slots, ok \in BOOLEAN : CloseDone(c, ok)
    \/ \E c \in Slots : Quiet /\ GetTabs(c)
    \/ \E c \in Slots, url \in Urls : Quiet /\ OpenBegin(c, url)
    \/ \E c \in Slots, ok \in BOOLEAN : OpenPage(c, ok)
    \/ \E c \in Slots, ok \in BOOLEAN : OpenGoto(c, ok)
    \/ \E c \in Slots, ok \in BOOLEAN, t \in Titles : OpenTitle(c, ok, t)
    \/ \E c \in Slots, id \in TabIds : Quiet /\ SwitchBegin(c, id)
    \/ \E c \in Slots, ok \in BOOLEAN : SwitchFront(c, ok)

Spec == Init /\ [][Next]_vars

\* ------------------------------------------------------------ normalizeKey
\* String.prototype.toLowerCase, letter by letter.
LowerChar(ch) ==
    CASE ch = "A" -> "a" [] ch = "B" -> "b" [] ch = "C" -> "c" [] ch = "D" -> "d"
      [] ch = "E" -> "e" [] ch = "F" -> "f" [] ch = "G" -> "g" [] ch = "H" -> "h"
      [] ch = "I" -> "i" [] ch = "J" -> "j" [] ch = "K" -> "k" [] ch = "L" -> "l"
      [] ch = "M" -> "m" [] ch = "N" -> "n" [] ch = "O" -> "o" [] ch = "P" -> "p"
      [] ch = "Q" -> "q" [] ch = "R" -> "r" [] ch = "S" -> "s" [] ch = "T" -> "t"
      [] ch = "U" -> "u" [] ch = "V" -> "v" [] ch = "W" -> "w" [] ch = "X" -> "x"
      [] ch = "Y" -> "y" [] ch = "Z" -> "z" [] OTHER -> ch

RECURSIVE toLowerCase(_)
toLowerCase(str) ==
    IF Len(str) = 0 THEN ""
    ELSE LowerChar(SubSeq(str, 1, 1)) \o toLowerCase(SubSeq(str, 2, Len(str)))

keyMap ==
    [alt |-> "Alt_L", ctrl |-> "Control_L", control |-> "Control_L",
     meta |-> "Meta_L", super |-> "Super_L", shift |-> "Shift_L",
     enter |-> "Return", return |-> "Return"]

\* Property names every object literal inherits from Object.prototype: a
\* lookup obj[name] finds them although the literal does not define them.
ObjectPrototypeKeys ==
    { "constructor", "__proto__", "hasOwnProperty", "isPrototypeOf",
      "propertyIsEnumerable", "toLocaleString", "toString", "valueOf" }

\* What such a lookup yields: the inherited member, which is not a string.
Inherited(name) == "[Object.prototype." \o name \o "]"

\* `keyMap[key.toLowerCase()] || key`
normalizeKey(key) ==
    LET lower == toLowerCase(key) IN
    IF lower \in DOMAIN keyMap THEN keyMap[lower]
    ELSE IF lower \in ObjectPrototypeKeys THEN Inherited(lower)
    ELSE key

\* Keys passed to normalizeKey: aliases of the table in several letter
\* cases, keys the table does not hold (a target of the table among them),
\* the empty string, and a name that Object.prototype defines.
KeyInputs ==
    { "alt", "Alt", "ALT", "ctrl", "Ctrl", "control", "CONTROL", "meta", "Meta",
      "super", "SUPER", "shift", "Shift", "sHiFt", "enter", "Enter", "ENTER",
      "return", "Return", "a", "b", "Escape", "Alt_L", "F1", "", "constructor" }

\* A call normalizeKey(key) and what it returned.
NormalizeKey(key) ==
    /\ keyCalls' = LET all == Append(keyCalls, [key |-> key, ret |-> normalizeKey(key)])
                   IN IF Len(all) > MaxKeyCalls THEN Tail(all) ELSE all
    /\ UNCHANGED <<clientVars, procVars, registryVars>>

KeysInit ==
    /\ Init
    /\ config.type = "none"

KeysNext == \E key \in KeyInputs : NormalizeKey(key)

SpecKeys == KeysInit /\ [][KeysNext]_vars

\* -------------------------------------------------------- input primitives
MaxClicks == 2       \* numClicks of clickMouse ranges over 0..MaxClicks

CoordinatePairs == { <<100, 200>> }
HoldKeyLists == { <<>>, <<"Shift", "a">> }
\* button, coordinates (absent: <<>>) and holdKeys of a clickMouse call.
ClickTargets ==
    { <<"left", <<100, 200>>, <<>>>>, <<"right", <<100, 200>>, <<"Shift", "a">>>>,
      <<"right", <<>>, <<>>>>, <<"left", <<>>, <<"Shift", "a">>>> }
\* clickType with numClicks; numClicks is only read for 'click' and defaults
\* to 1.
ClickVariants == { <<"down", 1>>, <<"up", 1>> } \cup { <<"click", n>> : n \in 0..MaxClicks }
Paths == { <<>>, << <<0, 0>> >>, << <<0, 0>>, <<100, 100>> >>,
           << <<0, 0>>, <<100, 100>>, <<200, 200>> >> }
Deltas == { <<-50, 100>> }
KeyLists == { <<>>, <<"ctrl", "Enter">> }
Durations == { 0, 1 }
Texts == { "hello" }
NodeEnvs == { "test", "production" }
Buffers == { <<77>>, <<77, 97>>, <<77, 97, 110, 33>> }

\* One awaited statement of a primitive: a page method with its arguments,
\* or this.wait(duration).
Step(m, arg, x, y) == [m |-> m, arg |-> arg, x |-> x, y |-> y]

\* for (const key of keys) await page.keyboard.down(normalizeKey(key))
keyDowns(keys) ==
    [i \in 1..Len(keys) |-> Step("keyboard.down", normalizeKey(keys[i]), 0, 0)]

\* for (const key of keys) await page.keyboard.up(normalizeKey(key))
keyUps(keys) ==
    [i \in 1..Len(keys) |-> Step("keyboard.up", normalizeKey(keys[i]), 0, 0)]

\* for (let i = keys.length - 1; i >= 0; i--) await page.keyboard.up(...)
keyUpsReversed_inOrder(keys) ==
    [i \in 1..Len(keys) |-> Step("keyboard.up", normalizeKey(keys[i]), 0, 0)]

keyUpsReversed(keys) ==
    [i \in 1..Len(keys) |->
        Step("keyboard.up", normalizeKey(keys[Len(keys) + 1 - i]), 0, 0)]

mouseMove(coordinates) == Step("mouse.move", "", coordinates[1], coordinates[2])

\* The awaited statements of each primitive, in program order.
moveMousePlan_keysAfter(coordinates, holdKeys) ==
    <<mouseMove(coordinates)>> \o keyDowns(holdKeys) \o keyUps(holdKeys)

moveMousePlan(coordinates, holdKeys) ==
    keyDowns(holdKeys) \o <<mouseMove(coordinates)>> \o keyUps(holdKeys)

\* for (let i = 0; i < numClicks; i++) { await mouse.down; await mouse.up }
clicks_single(button, numClicks) ==
    <<Step("mouse.down", button, 0, 0), Step("mouse.up", button, 0, 0)>>

RECURSIVE clicks(_, _)
clicks(button, numClicks) ==
    IF numClicks <= 0 THEN <<>>
    ELSE <<Step("mouse.down", button, 0, 0), Step("mouse.up", button, 0, 0)>>
         \o clicks(button, numClicks - 1)

clickMousePlan(button, clickType, coordinates, numClicks, holdKeys) ==
    (IF coordinates # <<>> THEN moveMousePlan(coordinates, <<>>) ELSE <<>>)
    \o keyDowns(holdKeys)
    \o (IF clickType = "down" THEN <<Step("mouse.down", button, 0, 0)>>
        ELSE IF clickType = "up" THEN <<Step("mouse.up", button, 0, 0)>>
        ELSE clicks(button, numClicks))
    \o keyUps(holdKeys)

dragMousePlan_pressLast(path, holdKeys) ==
    keyDowns(holdKeys)
    \o [i \in 1..Len(path) |-> mouseMove(path[i])]
    \o <<Step("mouse.down", "", 0, 0), Step("mouse.up", "", 0, 0)>>
    \o keyUps(holdKeys)

dragMousePlan(path, holdKeys) ==
    keyDowns(holdKeys)
    \o <<mouseMove(path[1]), Step("mouse.down", "", 0, 0)>>
    \o [i \in 1..(Len(path) - 1) |-> mouseMove(path[i + 1])]
    \o <<Step("mouse.up", "", 0, 0)>>
    \o keyUps(holdKeys)

scrollPlan(coordinates, deltaX, deltaY, holdKeys) ==
    <<mouseMove(coordinates)>>
    \o keyDowns(holdKeys)
    \o <<Step("mouse.wheel", "", deltaX, deltaY)>>
    \o keyUps(holdKeys)

\* The wait is skipped when duration is 0 or absent, and in the test
\* environment.
pressKeyPlan(keys, duration, nodeEnv) ==
    keyDowns(keys)
    \o (IF duration # 0 /\ nodeEnv # "test" THEN <<Step("wait", "", duration, 0)>>
                                           ELSE <<>>)
    \o keyUpsReversed(keys)

typeTextPlan(text, holdKeys) ==
    keyDowns(holdKeys) \o <<Step("keyboard.type", text, 0, 0)>> \o keyUps(holdKeys)

\* Evaluating the next awaited expression: `this.currentTab.page.<method>`
\* is read from the session at that moment; this.wait touches no page.
Issue(rec) ==
    LET step == rec.plan[rec.k] IN
    IF step.m = "wait" THEN rec
    ELSE [rec EXCEPT !.log = Append(@, PageCall(step.m, currentTab.page,
                                                step.arg, step.x, step.y))]

\* `if (!this.currentTab?.page) throw new Error(...)`
HasActivePage_always(tab) == TRUE

HasActivePage(tab) == tab # NoTab /\ tab.page # 0

\* `if (path.length < 2)`
PathTooShort_emptyOnly(path) == Len(path) < 1

PathTooShort(path) == Len(path) < 2

\* A primitive from its call to its first await, return or throw.
Invoke(c, op, args, plan, noPage) ==
    /\ FreeSlot(c)
    /\ LET call == [NewCall(op) EXCEPT !.args = args] IN
       IF ~HasActivePage(currentTab)
       THEN Finish(c, Thrown(call, noPage))
       ELSE IF plan = <<>>
       THEN Finish(c, Returned(call))
       ELSE Await(c, Issue([call EXCEPT !.pc = "input", !.plan = plan, !.k = 1]))
    /\ UNCHANGED <<config, closedHandles, sessionVars, objCtr, allocated>>

MoveMouse(c, coordinates, holdKeys) ==
    Invoke(c, "moveMouse",
           [NoArgs EXCEPT !.coordinates = coordinates, !.holdKeys = holdKeys],
           moveMousePlan(coordinates, holdKeys),
           "No active page for mouse movement")

\* With coordinates, clickMouse calls this.moveMouse(coordinates) before its
\* first await; that call repeats the check on the same state.
ClickMouse(c, button, clickType, coordinates, numClicks, holdKeys) ==
    Invoke(c, "clickMouse",
           [NoArgs EXCEPT !.button = button, !.clickType = clickType,
                          !.coordinates = coordinates, !.numClicks = numClicks,
                          !.holdKeys = holdKeys],
           clickMousePlan(button, clickType, coordinates, numClicks, holdKeys),
           "No active page for mouse click")

DragMouse(c, path, holdKeys) ==
    LET args == [NoArgs EXCEPT !.path = path, !.holdKeys = holdKeys] IN
    IF HasActivePage(currentTab) /\ PathTooShort(path)
    THEN /\ FreeSlot(c)
         /\ Finish(c, Thrown([NewCall("dragMouse") EXCEPT !.args = args],
                             "Drag path must contain at least two points"))
         /\ UNCHANGED <<config, closedHandles, sessionVars, objCtr, allocated>>
    ELSE Invoke(c, "dragMouse", args,
                IF PathTooShort(path) THEN <<>> ELSE dragMousePlan(path, holdKeys),
                "No active page for mouse drag")

Scroll(c, coordinates, deltaX, deltaY, holdKeys) ==
    Invoke(c, "scroll",
           [NoArgs EXCEPT !.coordinates = coordinates, !.deltaX = deltaX,
                          !.deltaY = deltaY, !.holdKeys = holdKeys],
           scrollPlan(coordinates, deltaX, deltaY, holdKeys),
           "No active page for scrolling")

PressKey(c, keys, duration, nodeEnv) ==
    Invoke(c, "pressKey",
           [NoArgs EXCEPT !.keys = keys, !.duration = duration],
           pressKeyPlan(keys, duration, nodeEnv),
           "No active page for key press")

TypeText(c, text, holdKeys) ==
    Invoke(c, "typeText",
           [NoArgs EXCEPT !.text = text, !.holdKeys = holdKeys],
           typeTextPlan(text, holdKeys),
           "No active page for typing")

\* The awaited statement settled.  A rejection is caught, logged and
\* rethrown; otherwise the primitive runs on to its next awaited statement
\* or returns.  A wait cannot reject.
InputSettled(c, ok) ==
    /\ calls[c].pc = "input"
    /\ LET rec == calls[c]
           step == rec.plan[rec.k]
       IN
       IF ~ok
       THEN /\ step.m # "wait"
            /\ Finish(c, Thrown(rec, step.m \o " failed"))
       ELSE IF rec.k = Len(rec.plan)
       THEN Finish(c, Returned(rec))
       ELSE IF rec.plan[rec.k + 1].m # "wait" /\ currentTab = NoTab
       THEN Finish(c, Thrown(rec, "TypeError: Cannot read properties of null (reading 'page')"))
       ELSE Await(c, Issue([rec EXCEPT !.k = rec.k + 1]))
    /\ UNCHANGED <<config, closedHandles, sessionVars, objCtr, allocated>>

\* ---------------------------------------------------------- takeScreenshot
\* Buffer.prototype.toString('base64')
Base64Alphabet == "ABCDEFGHIJKLMNOPQRSTUVWXYZabcdefghijklmnopqrstuvwxyz0123456789+/"

Base64Char(n) == SubSeq(Base64Alphabet, n + 1, n + 1)

RECURSIVE base64(_)
base64(bytes) ==
    IF Len(bytes) = 0 THEN ""
    ELSE IF Len(bytes) = 1
    THEN Base64Char(bytes[1] \div 4) \o Base64Char((bytes[1] % 4) * 16) \o "=="
    ELSE IF Len(bytes) = 2
    THEN Base64Char(bytes[1] \div 4)
         \o Base64Char((bytes[1] % 4) * 16 + bytes[2] \div 16)
         \o Base64Char((bytes[2] % 16) * 4) \o "="
    ELSE Base64Char(bytes[1] \div 4)
         \o Base64Char((bytes[1] % 4) * 16 + bytes[2] \div 16)
         \o Base64Char((bytes[2] % 16) * 4 + bytes[3] \div 64)
         \o Base64Char(bytes[3] % 64)
         \o base64(SubSeq(bytes, 4, Len(bytes)))

TakeScreenshot(c) ==
    /\ FreeSlot(c)
    /\ IF ~HasActivePage(currentTab)
       THEN Finish(c, Thrown(NewCall("takeScreenshot"),
                             "No active page to take screenshot from"))
       ELSE Await(c, [NewCall("takeScreenshot") EXCEPT
                         !.pc = "screenshot",
                         !.log = <<PageCall("screenshot", currentTab.page, "png", 0, 0)>>])
    /\ UNCHANGED <<config, closedHandles, sessionVars, objCtr, allocated>>

\* page.screenshot settled.
ScreenshotSettled(c, ok, buffer, nodeEnv) ==
    /\ calls[c].pc = "screenshot"
    /\ IF ok
       THEN Finish(c, Returned([calls[c] EXCEPT
                                   !.retShot = IF nodeEnv = "test" THEN "test-screenshot"
                                                                   ELSE base64(buffer)]))
       ELSE Finish(c, Thrown(calls[c], "screenshot failed"))
    /\ UNCHANGED <<config, closedHandles, sessionVars, objCtr, allocated>>

\* ---------------------------------------------------------- getCoordinates
InstructionTexts == { "find the login button" }

ScreenElement(description, x, y) ==
    [description |-> description, coordinate |-> <<x, y>>]

\* The call: console.log, then `await Promise.resolve()`.
GetCoordinatesBegin(c, instruction) ==
    /\ FreeSlot(c)
    /\ Await(c, [NewCall("getCoordinates") EXCEPT
                    !.pc = "resolved",
                    !.args = [NoArgs EXCEPT !.instruction = instruction]])
    /\ UNCHANGED <<config, closedHandles, sessionVars, objCtr, allocated>>

\* After the await: the fixed list is returned.
GetCoordinatesResumed(c) ==
    /\ calls[c].op = "getCoordinates" /\ calls[c].pc = "resolved"
    /\ Finish(c, Returned([calls[c] EXCEPT
                              !.retElements = << ScreenElement("Search box", 100, 200),
                                                 ScreenElement("Submit button", 300, 200),
                                                 ScreenElement("Navigation menu", 50, 50) >>]))
    /\ UNCHANGED <<config, closedHandles, sessionVars, objCtr, allocated>>

\* --------------------------------- the session's input side, call by call
\* A session with no browser settings, started and closed at will, on which
\* the input primitives, takeScreenshot and getCoordinates are called one
\* at a time.
InputInit ==
    /\ Init
    /\ config.type = "none"

InputNext ==
    \/ \E c \in Slots : Quiet /\ StartBegin(c)
    \/ \E c \in Slots, ok \in BOOLEAN : StartImported(c, ok)
    \/ \E c \in Slots, ok \in BOOLEAN : StartAcquired(c, ok)
    \/ \E c \in Slots, ok \in BOOLEAN : StartContext(c, ok)
    \/ \E c \in Slots, ok \in BOOLEAN : StartPage(c, ok)
    \/ \E c \in Slots, ok \in BOOLEAN, t \in Titles : StartTitle(c, ok, t)
    \/ \E c \in Slots : Quiet /\ CloseBegin(c)
    \/ \E c \in Slots, ok \in BOOLEAN : CloseDone(c, ok)
    \/ \E c \in Slots, xy \in CoordinatePairs, hold \in HoldKeyLists :
          Quiet /\ MoveMouse(c, xy, hold)
    \/ \E c \in Slots, t \in ClickTargets, cv \in ClickVariants :
          Quiet /\ ClickMouse(c, t[1], cv[1], t[2], cv[2], t[3])
    \/ \E c \in Slots, path \in Paths, hold \in HoldKeyLists :
          Quiet /\ DragMouse(c, path, hold)
    \/ \E c \in Slots, xy \in CoordinatePairs, d \in Deltas, hold \in HoldKeyLists :
          Quiet /\ Scroll(c, xy, d[1], d[2], hold)
    \/ \E c \in Slots, keys \in KeyLists, dur \in Durations, env \in NodeEnvs :
          Quiet /\ PressKey(c, keys, dur, env)
    \/ \E c \in Slots, text \in Texts, hold \in HoldKeyLists :
          Quiet /\ TypeText(c, text, hold)
    \/ \E c \in Slots, ok \in BOOLEAN : InputSettled(c, ok)
    \/ \E c \in Slots : Quiet /\ TakeScreenshot(c)
    \/ \E c \in Slots, ok \in BOOLEAN, buf \in Buffers, env \in NodeEnvs :
          ScreenshotSettled(c, ok, buf, env)
    \/ \E c \in Slots, ins \in InstructionTexts : Quiet /\ GetCoordinatesBegin(c, ins)
    \/ \E c \in Slots : GetCoordinatesResumed(c)

SpecInput == InputInit /\ [][InputNext]_vars

\* ------------------------------------------- the session, calls overlapping
\* A session with no browser settings whose startBrowser() has returned:
\* browser 1, context 2 and the first tab (id 0) on page 3.  The call slots
\* are empty.
StartedInit ==
    /\ config \in {cfg \in Configs : cfg.type = "none"}
    /\ browser = 1
    /\ context = 2
    /\ currentTab = Tab(generateTabId(0), 3, "Test Page")
    /\ otherTabs = <<>>
    /\ tabIdCounter = NextTabIdCounter(0)
    /\ objCtr = 3
    /\ allocated = <<generateTabId(0)>>
    /\ closedHandles = {}
    /\ calls = [c \in ConcSlots |-> IdleCall]
    /\ scenario = NoScenario
    /\ apiKey = "sk-ant-key"
    /\ cachedResults = <<>>
    /\ pcalls = [c \in Slots |-> IdleProcess]
    /\ keyLog = [pr \in Pairs |-> <<>>]
    /\ registry = <<>>
    /\ constructed = 0
    /\ fcall = NoFactoryCall
    /\ replaced = <<>>
    /\ keyCalls = <<>>

\* The caller issues a call while others are in flight: nothing in the
\* session serializes them, each runs from await to await.
ConcNext ==
    \/ \E c \in ConcSlots : CloseBegin(c)
    \/ \E c \in ConcSlots, ok \in BOOLEAN : CloseDone(c, ok)
    \/ \E c \in ConcSlots : Quiet /\ GetTabs(c)
    \/ \E c \in ConcSlots, url \in Urls : OpenBegin(c, url)
    \/ \E c \in ConcSlots, ok \in BOOLEAN :
          (ok => objCtr < MaxConcObjects) /\ OpenPage(c, ok)
    \/ \E c \in ConcSlots, ok \in BOOLEAN : OpenGoto(c, ok)
    \/ \E c \in ConcSlots, ok \in BOOLEAN, t \in Titles : OpenTitle(c, ok, t)
    \/ \E c \in ConcSlots, id \in TabIds : SwitchBegin(c, id)
    \/ \E c \in ConcSlots, ok \in BOOLEAN : SwitchFront(c, ok)

SpecConc == StartedInit /\ [][ConcNext]_vars

\* The same caller with the input side: moveMouse or pressKey is called
\* while nothing is in flight, and one switchTab, openNewTab or close at a
\* time is called while it runs.
OnlyInputInFlight == \A c \in ConcSlots : calls[c].pc \in {"idle", "done", "input"}

ConcInputNext ==
    \/ \E c \in ConcSlots : OnlyInputInFlight /\ CloseBegin(c)
    \/ \E c \in ConcSlots, ok \in BOOLEAN : CloseDone(c, ok)
    \/ \E c \in ConcSlots : OnlyInputInFlight /\ OpenBegin(c, "https://a")
    \/ \E c \in ConcSlots, ok \in BOOLEAN :
          (ok => objCtr < MaxConcObjects) /\ OpenPage(c, ok)
    \/ \E c \in ConcSlots, ok \in BOOLEAN : OpenGoto(c, ok)
    \/ \E c \in ConcSlots, ok \in BOOLEAN, t \in Titles : OpenTitle(c, ok, t)
    \/ \E c \in ConcSlots, id \in TabIds : OnlyInputInFlight /\ SwitchBegin(c, id)
    \/ \E c \in ConcSlots, ok \in BOOLEAN : SwitchFront(c, ok)
    \/ \E c \in ConcSlots : Quiet /\ MoveMouse(c, <<100, 200>>, <<"Shift", "a">>)
    \/ \E c \in ConcSlots : Quiet /\ PressKey(c, <<"ctrl", "Enter">>, 1, "production")
    \/ \E c \in ConcSlots, ok \in BOOLEAN : InputSettled(c, ok)

SpecConcInput == StartedInit /\ [][ConcInputNext]_vars

\* ------------------------------------------------ ScreenProcessorFactory
\* `this.registry[name]`: an own property, else what the object literal
\* inherits, else undefined.
Lookup(reg, name) ==
    IF name \in DOMAIN reg THEN reg[name]
    ELSE IF name \in ObjectPrototypeKeys THEN InheritedMember
    ELSE Undefined

\* `this.registry[name] = processor`
Assign(reg, name, processor) ==
    [n \in DOMAIN reg \cup {name} |-> IF n = name THEN processor ELSE reg[n]]

\* JavaScript truthiness of a name (given says whether the argument was
\* passed at all) and of a looked-up value.
TruthyName(given, name) == given /\ name # ""

Truthy(value) == value.kind # "undefined"

RegisterScreenProcessor(name, processor) ==
    /\ registry' = Assign(registry, name, processor)
    /\ fcall' = [op |-> "register", given |-> TRUE, name |-> name,
                 processor |-> processor, ret |-> Undefined, pre |-> registry]
    /\ replaced' = IF name \in DOMAIN registry
                   THEN Assign(replaced, name, registry[name])
                   ELSE replaced
    /\ UNCHANGED <<constructed, clientVars, procVars, keyCalls>>

\* getScreenProcessor(customProcessorName?)
GetScreenProcessor(given, name) ==
    /\ constructed < MaxConstructed
    /\ IF TruthyName(given, name) /\ Truthy(Lookup(registry, name))
       THEN /\ fcall' = [op |-> "resolve", given |-> given, name |-> name,
                         processor |-> Undefined, ret |-> Lookup(registry, name),
                         pre |-> registry]
            /\ UNCHANGED constructed
       ELSE /\ fcall' = [op |-> "resolve", given |-> given, name |-> name,
                         processor |-> Undefined,
                         ret |-> ClaudeProcessor(constructed + 1), pre |-> registry]
            /\ constructed' = constructed + 1
    /\ UNCHANGED <<registry, replaced, clientVars, procVars, keyCalls>>

\* The factory as the program starts: nothing registered.
RegistryInit ==
    /\ Init
    /\ config.type = "none"

RegistryNext ==
    \/ \E name \in ProcessorNames, processor \in CustomProcessors :
          RegisterScreenProcessor(name, processor)
    \/ \E name \in ProcessorNames : GetScreenProcessor(TRUE, name)
    \/ GetScreenProcessor(FALSE, "")

SpecRegistry == RegistryInit /\ [][RegistryNext]_vars

\* ------------------------------------------------ ClaudeScreenProcessor
\* `${screenshot.substring(0, 100)}_${instruction}`
CacheKey_wholeScreenshot(screenshot, instruction) == screenshot \o "_" \o instruction

CacheKey(screenshot, instruction) ==
    (IF Len(screenshot) <= PrefixLen THEN screenshot
                                     ELSE SubSeq(screenshot, 1, PrefixLen))
    \o "_" \o instruction

\* Map.has / Map.get / Map.set
has(cache, key) == key \in DOMAIN cache

get(cache, key) == cache[key]

set(cache, key, value) == [k \in DOMAIN cache \cup {key} |->
                              IF k = key THEN value ELSE cache[k]]

\* JSON.parse(block.text): throws on text that is not JSON.
JSONparse(text) == [threw |-> ~text.wf, value |-> text.value]

\* ElementSchema: z.object({description: z.string(),
\*                          coordinate: z.tuple([z.number(), z.number()])})
ElementSchemaAccepts(v) ==
    /\ v.t = "obj"
    /\ "description" \in DOMAIN v.v
    /\ v.v.description.t = "str"
    /\ "coordinate" \in DOMAIN v.v
    /\ v.v.coordinate.t = "arr"
    /\ Len(v.v.coordinate.v) = 2
    /\ \A k \in 1..2 : v.v.coordinate.v[k].t = "num"

\* ElementArraySchema = z.array(ElementSchema)
ElementArraySchemaAccepts(v) ==
    /\ v.t = "arr"
    /\ \A i \in DOMAIN v.v : ElementSchemaAccepts(v.v[i])

\* The validated elements mapped to {description, coordinate}; keys the
\* schema does not name are gone.
screenElements(v) ==
    [i \in DOMAIN v.v |->
        [description |-> v.v[i].v.description.v,
         coordinate |-> <<v.v[i].v.coordinate.v[1].v, v.v[i].v.coordinate.v[2].v>>]]

\* for (const block of response.content) if (block.type === 'text'): the
\* index of the block the loop stops at, 0 when it runs to the end.
FirstTextBlock_firstValid(content) ==
    LET valid(i) == /\ content[i].type = "text"
                    /\ ~JSONparse(content[i].text).threw
                    /\ ElementArraySchemaAccepts(JSONparse(content[i].text).value)
    IN IF \E i \in DOMAIN content : valid(i)
       THEN CHOOSE i \in DOMAIN content : valid(i) /\ \A j \in 1..(i - 1) : ~valid(j)
       ELSE IF \E i \in DOMAIN content : content[i].type = "text"
       THEN CHOOSE i \in DOMAIN content : content[i].type = "text"
       ELSE 0

FirstTextBlock(content) ==
    IF \E i \in DOMAIN content : content[i].type = "text"
    THEN CHOOSE i \in DOMAIN content :
            /\ content[i].type = "text"
            /\ \A j \in 1..(i - 1) : content[j].type # "text"
    ELSE 0

PQuiet == \A c \in DOMAIN pcalls : pcalls[c].pc \in {"idle", "done"}

PFreeSlot(c) ==
    /\ pcalls[c].pc \in {"idle", "done"}
    /\ \A d \in DOMAIN pcalls : d < c => pcalls[d].pc \notin {"idle", "done"}

\* How a backend call settled, as the caller of process() would describe it.
Kind(outcome) ==
    IF outcome.rejected THEN "rejected"
    ELSE IF \A i \in DOMAIN outcome.content : outcome.content[i].type # "text"
    THEN "notext"
    ELSE "text"

ProcessCallsMade ==
    LET RECURSIVE Sum(_)
        Sum(S) == IF S = {} THEN 0
                  ELSE LET pr == CHOOSE x \in S : TRUE
                       IN Len(keyLog[pr]) + Sum(S \ {pr})
    IN Sum(Pairs)

PAwait(c, rec) ==
    /\ pcalls' = [pcalls EXCEPT ![c] = rec]
    /\ keyLog' = keyLog
    /\ UNCHANGED <<clientVars, registryVars, keyCalls>>

\* process() resolves with value `elements`.
PReturn(c, rec, elements) ==
    LET r == [rec EXCEPT !.pc = "done", !.status = "ok", !.ret = elements]
        pr == <<Prefix(rec.screenshot), rec.instruction>>
    IN
    /\ pcalls' = [pcalls EXCEPT ![c] = r]
    /\ keyLog' = [keyLog EXCEPT ![pr] =
                     Append(@, IF rec.invoked THEN Kind(rec.outcome) ELSE "none")]
    /\ UNCHANGED <<clientVars, registryVars, keyCalls>>

\* process() rejects.
PThrow(c, rec) ==
    LET r == [rec EXCEPT !.pc = "done", !.status = "err"]
        pr == <<Prefix(rec.screenshot), rec.instruction>>
    IN
    /\ pcalls' = [pcalls EXCEPT ![c] = r]
    /\ keyLog' = [keyLog EXCEPT ![pr] =
                     Append(@, IF rec.invoked THEN Kind(rec.outcome) ELSE "none")]
    /\ UNCHANGED <<clientVars, registryVars, keyCalls>>

\* `!this.config.apiKey`
NoCredential_never(key) == FALSE

NoCredential(key) == key = ""

\* The call itself: the credential check, the cache lookup and, on a miss,
\* the request up to `await this.client.beta.messages.create(...)`.
ProcessBegin(c, screenshot, instruction) ==
    /\ PFreeSlot(c)
    /\ ProcessCallsMade < MaxProcCalls
    /\ LET call == [IdleProcess EXCEPT !.screenshot = screenshot,
                                       !.instruction = instruction,
                                       !.status = "pending"]
           cacheKey == CacheKey(screenshot, instruction)
       IN
       IF NoCredential(apiKey)
       THEN PReturn(c, [call EXCEPT !.ending = "nokey"], <<>>)
       ELSE IF has(cachedResults, cacheKey)
       THEN PReturn(c, [call EXCEPT !.cacheKey = cacheKey, !.hadEntry = TRUE,
                                    !.ending = "hit"],
                    get(cachedResults, cacheKey))
       ELSE PAwait(c, [call EXCEPT !.cacheKey = cacheKey, !.pc = "create",
                                   !.invoked = TRUE])
    /\ UNCHANGED <<apiKey, cachedResults>>

\* catch (error) of the outer try: the rejection is cached as [] and
\* swallowed.
OnApiError_rethrow(c, rec) ==
    /\ cachedResults' = set(cachedResults, rec.cacheKey, <<>>)
    /\ PThrow(c, [rec EXCEPT !.ending = "rejected"])

OnApiError(c, rec) ==
    /\ cachedResults' = set(cachedResults, rec.cacheKey, <<>>)
    /\ PReturn(c, [rec EXCEPT !.ending = "rejected"], <<>>)

\* catch (parseError) of the inner try: the failure is cached as [].
OnParseError_notCached(c, rec) ==
    /\ PReturn(c, [rec EXCEPT !.ending = "invalid"], <<>>)
    /\ UNCHANGED cachedResults

OnParseError(c, rec) ==
    /\ cachedResults' = set(cachedResults, rec.cacheKey, <<>>)
    /\ PReturn(c, [rec EXCEPT !.ending = "invalid"], <<>>)

\* The loop ran to its end without meeting a text block: `return []`.
OnNoTextBlock_cached(c, rec) ==
    /\ cachedResults' = set(cachedResults, rec.cacheKey, <<>>)
    /\ PReturn(c, [rec EXCEPT !.ending = "notext"], <<>>)

OnNoTextBlock(c, rec) ==
    /\ PReturn(c, [rec EXCEPT !.ending = "notext"], <<>>)
    /\ UNCHANGED cachedResults

\* messages.create settled: the catch of the outer try on a rejection,
\* else the loop over response.content.
ProcessSettled(c, outcome) ==
    /\ pcalls[c].pc = "create"
    /\ LET rec == [pcalls[c] EXCEPT !.outcome = outcome]
           at == FirstTextBlock(outcome.content)
       IN
       IF outcome.rejected
       THEN OnApiError(c, rec)
       ELSE IF at = 0
       THEN OnNoTextBlock(c, rec)
       ELSE LET parsed == JSONparse(outcome.content[at].text) IN
            IF ~parsed.threw /\ ElementArraySchemaAccepts(parsed.value)
            THEN /\ cachedResults' = set(cachedResults, rec.cacheKey,
                                         screenElements(parsed.value))
                 /\ PReturn(c, [rec EXCEPT !.ending = "valid"],
                            screenElements(parsed.value))
            ELSE OnParseError(c, rec)
    /\ UNCHANGED apiKey

\* ------------------------------------------- the processor, call by call
\* A processor as constructed, with or without a credential.
ProcInit ==
    /\ config = [type |-> "none", wssUrl |-> "", cdpUrl |-> "",
                 localChromePath |-> "", proxy |-> ""]
    /\ browser = 0
    /\ context = 0
    /\ currentTab = NoTab
    /\ otherTabs = <<>>
    /\ tabIdCounter = 0
    /\ objCtr = 0
    /\ allocated = <<>>
    /\ closedHandles = {}
    /\ calls = [c \in Slots |-> IdleCall]
    /\ scenario = NoScenario
    /\ apiKey \in {"", "sk-ant-key"}
    /\ cachedResults = <<>>
    /\ pcalls = [c \in Slots |-> IdleProcess]
    /\ keyLog = [pr \in Pairs |-> <<>>]
    /\ registry = <<>>
    /\ constructed = 0
    /\ fcall = NoFactoryCall
    /\ replaced = <<>>
    /\ keyCalls = <<>>

ProcNext ==
    \/ \E c \in Slots, sc \in Screenshots, ins \in Instructions :
          PQuiet /\ ProcessBegin(c, sc, ins)
    \/ \E c \in Slots, outcome \in Outcomes : ProcessSettled(c, outcome)

SpecProc == ProcInit /\ [][ProcNext]_vars

\* --------------------------------------- the processor, calls overlapping
\* A processor as constructed, with room for one more call in flight.
ProcConcInit ==
    /\ config = [type |-> "none", wssUrl |-> "", cdpUrl |-> "",
                 localChromePath |-> "", proxy |-> ""]
    /\ browser = 0
    /\ context = 0
    /\ currentTab = NoTab
    /\ otherTabs = <<>>
    /\ tabIdCounter = 0
    /\ objCtr = 0
    /\ allocated = <<>>
    /\ closedHandles = {}
    /\ calls = [c \in Slots |-> IdleCall]
    /\ scenario = NoScenario
    /\ apiKey \in {"", "sk-ant-key"}
    /\ cachedResults = <<>>
    /\ pcalls = [c \in ConcSlots |-> IdleProcess]
    /\ keyLog = [pr \in Pairs |-> <<>>]
    /\ registry = <<>>
    /\ constructed = 0
    /\ fcall = NoFactoryCall
    /\ replaced = <<>>
    /\ keyCalls = <<>>

\* process() is called again while earlier calls await the backend.
ProcConcNext ==
    \/ \E c \in ConcSlots, sc \in {Pad98 \o "xyP", Pad98 \o "xyQ"}, ins \in Instructions :
          ProcessBegin(c, sc, ins)
    \/ \E c \in ConcSlots, outcome \in Outcomes : ProcessSettled(c, outcome)

SpecProcConc == ProcConcInit /\ [][ProcConcNext]_vars

TypeOK ==
    /\ config \in Configs
    /\ browser \in 0..MaxObjects
    /\ context \in 0..MaxObjects
    /\ tabIdCounter \in 0..MaxTabId
    /\ objCtr \in 0..MaxObjects
    /\ scenario.step \in 0..3

\* ===================================================== claims: the session
Range(seq) == {seq[i] : i \in DOMAIN seq}

Without(seq, x) == SelectSeq(seq, LAMBDA y : y # x)

HeldTabs(cur, others) == (IF cur # NoTab THEN {cur} ELSE {}) \cup Range(others)

Completed(c, op) == calls[c].pc = "done" /\ calls[c].op = op

\* C1: every tab id the session allocates, over any sequence of start,
\* openTab, switchTab and close calls (failed ones included), is strictly
\* greater than every id allocated before it.
C1_TabIdsStrictlyIncreasing ==
    \A i, j \in DOMAIN allocated : i < j => allocated[i] < allocated[j]

\* An id has been allocated by a start that followed a close, after a failed
\* openTab had already consumed an id.
C1_Witness ==
    /\ Len(allocated) >= 3
    /\ \E c \in Slots :
          /\ Completed(c, "start") /\ calls[c].status = "ok"
          /\ calls[c].pre.tabIdCounter >= 2
          /\ calls[c].pre.browser = 0

\* C2: between calls there is at most one current tab, the current tab is
\* not a member of others, and no tab appears in others twice.
C2_TabRegistryConsistent ==
    Quiet =>
        /\ \A i \in DOMAIN otherTabs : otherTabs[i] # currentTab
        /\ \A i, j \in DOMAIN otherTabs : i # j => otherTabs[i] # otherTabs[j]

\* C5: a successful switchTab(id), id being the id of a tab of others, ends
\* with that tab current and returned and no longer in others, the previous
\* current tab appended at the end of others, the remaining tabs of others
\* in their previous relative order, and the same set of tabs as before.
C5_SwitchTabPromotes ==
    \A c \in Slots :
        (/\ Completed(c, "switchTab") /\ calls[c].status = "ok"
         /\ \E i \in DOMAIN calls[c].pre.otherTabs :
                calls[c].pre.otherTabs[i].id = calls[c].tabId)
        =>
        LET pre == calls[c].pre
            t == CHOOSE x \in Range(pre.otherTabs) : x.id = calls[c].tabId
        IN
        /\ currentTab = t
        /\ calls[c].retTab = t
        /\ t \notin Range(otherTabs)
        /\ otherTabs = Without(pre.otherTabs, t)
                         \o (IF pre.currentTab # NoTab THEN <<pre.currentTab>> ELSE <<>>)
        /\ HeldTabs(currentTab, otherTabs) = HeldTabs(pre.currentTab, pre.otherTabs)

\* C6: switchTab(id) with no tab of that id in others throws the not-found
\* error, issues no driver call and leaves the session as it was.
C6_SwitchTabUnknownId ==
    \A c \in Slots :
        (/\ Completed(c, "switchTab")
         /\ \A i \in DOMAIN calls[c].pre.otherTabs :
                calls[c].pre.otherTabs[i].id # calls[c].tabId)
        =>
        /\ calls[c].status = "err"
        /\ calls[c].err = "Tab with ID not found"
        /\ calls[c].log = <<>>
        /\ Snapshot = calls[c].pre

\* switchTab was called with the id of the current tab itself while others
\* held other tabs, and threw.
C6_Witness ==
    \E c \in Slots :
        /\ Completed(c, "switchTab") /\ calls[c].status = "err"
        /\ currentTab # NoTab /\ calls[c].tabId = currentTab.id
        /\ otherTabs # <<>>
        /\ \A i \in DOMAIN otherTabs : otherTabs[i].id # calls[c].tabId

\* C7: whenever switchTab fails, the current tab and others are what they
\* were immediately before the call.
C7_SwitchTabFailureKeepsState ==
    \A c \in Slots :
        (Completed(c, "switchTab") /\ calls[c].status = "err")
        =>
        /\ currentTab = calls[c].pre.currentTab
        /\ otherTabs = calls[c].pre.otherTabs

\* C8: getTabs() returns the current tab (when there is one) followed by
\* others as it stands, so its length is (1 if current else 0) + |others|;
\* it returns the empty list on a never-started session and changes no
\* state.  others is only ever cleared, shortened by removing one element,
\* or extended at its end, so its order is the order of insertion.
C8_OthersKeepsInsertionOrder ==
    \/ otherTabs' = otherTabs
    \/ otherTabs' = <<>>
    \/ \E t \in {currentTab} : otherTabs' = otherTabs \o <<t>>
    \/ \E i \in DOMAIN otherTabs :
          LET rest == [k \in 1..(Len(otherTabs) - 1) |->
                          IF k < i THEN otherTabs[k] ELSE otherTabs[k + 1]]
          IN \/ otherTabs' = rest
             \/ otherTabs' = rest \o <<currentTab>>

C8_GetTabsResult ==
    \A c \in Slots :
        Completed(c, "getTabs") =>
            /\ calls[c].status = "ok"
            /\ Len(calls[c].retTabs) = (IF currentTab # NoTab THEN 1 ELSE 0) + Len(otherTabs)
            /\ currentTab # NoTab => calls[c].retTabs[1] = currentTab
            /\ \A i \in DOMAIN otherTabs :
                  calls[c].retTabs[i + (IF currentTab # NoTab THEN 1 ELSE 0)] = otherTabs[i]
            /\ (calls[c].pre.browser = 0 /\ calls[c].pre.tabIdCounter = 0)
                  => calls[c].retTabs = <<>>
            /\ calls[c].log = <<>>
            /\ Snapshot = calls[c].pre

C8_ListTabs == []C8_GetTabsResult /\ [][C8_OthersKeepsInsertionOrder]_vars

\* getTabs() has returned a current tab followed by two other tabs.
C8_Witness ==
    \E c \in Slots :
        /\ Completed(c, "getTabs")
        /\ currentTab # NoTab
        /\ Len(otherTabs) >= 2
        /\ Len(calls[c].retTabs) >= 3

\* C9: a successful openTab(url) creates exactly one page, navigates it to
\* url, appends the previous current tab (if any) at the end of others and
\* makes current, and returns, a new tab holding that page whose id is the
\* next unallocated id; nothing else is added, removed or reordered.
C9_OpenTabSuccess ==
    \A c \in Slots :
        (Completed(c, "openTab") /\ calls[c].status = "ok")
        =>
        LET pre == calls[c].pre
            log == calls[c].log
            tab == calls[c].retTab
        IN
        /\ Cardinality({i \in DOMAIN log : log[i].m = "newPage"}) = 1
        /\ \E i \in DOMAIN log : log[i] = DriverCall("goto", tab.page, calls[c].url)
        /\ Cardinality({i \in DOMAIN log : log[i].m = "goto"}) = 1
        /\ \A t \in HeldTabs(pre.currentTab, pre.otherTabs) : t.page # tab.page
        /\ otherTabs = pre.otherTabs
                         \o (IF pre.currentTab # NoTab THEN <<pre.currentTab>> ELSE <<>>)
        /\ currentTab = tab
        /\ tab.id = pre.tabIdCounter
        /\ \A i \in DOMAIN allocated : i < Len(allocated) => allocated[i] < tab.id
        /\ tab.id = allocated[Len(allocated)]
        /\ browser = pre.browser
        /\ context = pre.context

\* openTab succeeded on a session that had a current tab and a non-empty
\* others.
C9_Witness ==
    \E c \in Slots :
        /\ Completed(c, "openTab") /\ calls[c].status = "ok"
        /\ calls[c].pre.currentTab # NoTab
        /\ calls[c].pre.otherTabs # <<>>

\* C10 as stated: after openTab("https://a"), openTab("https://b") and
\* getTabs() in a row, getTabs() has returned exactly [tabB, tabA].
C10_Original ==
    \A c \in Slots :
        (Completed(c, "getTabs") /\ scenario.step = 3)
        => calls[c].retTabs = <<scenario.tabB, scenario.tabA>>

\* C10 amended: getTabs() has returned tabB first and tabA last, and between
\* them the tabs the session already held when openTab("https://a") was
\* called: its former others in order, then its former current tab.
C10_Amended ==
    \A c \in Slots :
        (Completed(c, "getTabs") /\ scenario.step = 3)
        => calls[c].retTabs =
               <<scenario.tabB>>
               \o scenario.beforeOthers
               \o (IF scenario.beforeCur # NoTab THEN <<scenario.beforeCur>> ELSE <<>>)
               \o <<scenario.tabA>>

\* The scenario has run on a session whose start had opened the first tab.
C10_Witness ==
    \E c \in Slots :
        /\ Completed(c, "getTabs") /\ scenario.step = 3
        /\ scenario.beforeCur # NoTab
        /\ scenario.beforeCur.id = 0

\* =================================================== claims: the processor
\* The cache key a (prefix, instruction) pair stands for.
KeyOf(pr) == pr[1] \o "_" \o pr[2]

PairOf(rec) ==
    <<IF Len(rec.screenshot) <= 100 THEN rec.screenshot
                                    ELSE SubSeq(rec.screenshot, 1, 100),
      rec.instruction>>

Invoking(entry) == entry # "none"

\* The text of the first text block of a response, if it has one.
HasText(content) == \E i \in DOMAIN content : content[i].type = "text"

FirstText(content) ==
    LET i == CHOOSE k \in DOMAIN content :
                 /\ content[k].type = "text"
                 /\ \A j \in DOMAIN content : j < k => content[j].type # "text"
    IN content[i].text

NotJsonTexts == {Malformed}

SchemaInvalidTexts ==
    {TextNotAnArray, TextNoCoordinate, TextLongCoordinate,
     TextStringCoordinate, TextNumberDescription}

\* A completed call was the first one on the instance for its cache key.
FirstForItsKey(rec) ==
    /\ Len(keyLog[PairOf(rec)]) = 1
    /\ \A q \in Pairs :
          (q # PairOf(rec) /\ keyLog[q] # <<>>) => KeyOf(q) # KeyOf(PairOf(rec))

\* An earlier call had the same screenshot prefix and another instruction.
FollowsOtherInstruction(rec) ==
    \E q \in Pairs :
        /\ q[1] = PairOf(rec)[1]
        /\ q[2] # rec.instruction
        /\ keyLog[q] # <<>>

\* C3 as stated: of two process() calls with the same screenshot prefix and
\* instruction at most one invokes the backend, whatever the first call's
\* outcome; a further call with another instruction and the same prefix
\* invokes the backend.
C3_Original ==
    /\ \A pr \in Pairs : \A i, j \in DOMAIN keyLog[pr] :
          i < j => ~(Invoking(keyLog[pr][i]) /\ Invoking(keyLog[pr][j]))
    /\ \A c \in Slots :
          (/\ pcalls[c].pc = "done" /\ apiKey # ""
           /\ Len(keyLog[PairOf(pcalls[c])]) = 1
           /\ FollowsOtherInstruction(pcalls[c]))
          => pcalls[c].invoked

\* C3 amended: of two process() calls with the same screenshot prefix and
\* instruction at most one invokes the backend, unless the first call's
\* backend response had no text block; a call whose cache key no earlier
\* call on the instance had (such as a further call with another
\* instruction and the same prefix on a fresh instance) invokes the backend.
C3_Amended ==
    /\ \A pr \in Pairs : \A i, j \in DOMAIN keyLog[pr] :
          (i < j /\ keyLog[pr][i] # "notext")
          => ~(Invoking(keyLog[pr][i]) /\ Invoking(keyLog[pr][j]))
    /\ \A c \in Slots :
          (/\ pcalls[c].pc = "done" /\ apiKey # ""
           /\ FirstForItsKey(pcalls[c]))
          => pcalls[c].invoked

\* Two calls for one (prefix, instruction) with different screenshots were
\* made, the first invoking the backend and the second not; then a call
\* with the same prefix and another instruction invoked the backend.
C3_Witness ==
    \E c \in Slots :
        /\ pcalls[c].pc = "done" /\ pcalls[c].invoked
        /\ Len(pcalls[c].screenshot) > 100
        /\ \E q \in Pairs :
              /\ q[1] = PairOf(pcalls[c])[1]
              /\ q[2] # pcalls[c].instruction
              /\ Len(keyLog[q]) = 2
              /\ Invoking(keyLog[q][1]) /\ ~Invoking(keyLog[q][2])

\* C4: process() never rejects; it resolves with a list, which is empty
\* when there is no credential, when the backend call rejects, when the
\* response has no text block, and when the first text block is not JSON
\* or is JSON the element schema refuses.
C4_ProcessNeverThrows ==
    \A c \in Slots :
        pcalls[c].pc = "done" =>
            /\ pcalls[c].status = "ok"
            /\ apiKey = "" => pcalls[c].ret = <<>>
            /\ pcalls[c].invoked =>
                  /\ pcalls[c].outcome.rejected => pcalls[c].ret = <<>>
                  /\ (~pcalls[c].outcome.rejected /\ ~HasText(pcalls[c].outcome.content))
                        => pcalls[c].ret = <<>>
                  /\ (/\ ~pcalls[c].outcome.rejected
                      /\ HasText(pcalls[c].outcome.content)
                      /\ FirstText(pcalls[c].outcome.content)
                            \in NotJsonTexts \cup SchemaInvalidTexts)
                        => pcalls[c].ret = <<>>

\* A call has completed whose backend response had a first text block that
\* is not JSON, followed by a text block holding valid elements.
C4_Witness ==
    \E c \in Slots :
        /\ pcalls[c].pc = "done" /\ pcalls[c].invoked
        /\ pcalls[c].outcome = Response(<<TextBlock(Malformed), TextBlock(TextOneElement)>>)
        /\ pcalls[c].ret = <<>>

\* ------------------------------------------------------- start and close
\* C13: a start() that fails, at whichever step, on a session that was not
\* started leaves it unstarted as before the call: no browser handle, no
\* context, no current tab, others empty, the tab id counter unchanged.
C13_FailedStartLeavesUnstarted ==
    \A c \in Slots :
        (/\ Completed(c, "start") /\ calls[c].status = "err"
         /\ calls[c].pre.browser = 0 /\ calls[c].pre.context = 0
         /\ calls[c].pre.currentTab = NoTab /\ calls[c].pre.otherTabs = <<>>)
        =>
        /\ browser = 0
        /\ context = 0
        /\ currentTab = NoTab
        /\ otherTabs = <<>>
        /\ tabIdCounter = calls[c].pre.tabIdCounter

\* C14: a start() on a session that holds no browser handle, once the driver
\* module is loaded, makes exactly one acquisition call, the first driver
\* call of the invocation: connect(wssUrl) for remote settings with a
\* websocket URL (whether or not a CDP URL is set too), connectOverCDP(cdpUrl)
\* for remote settings with only a CDP URL, launch with the configured
\* executable path and proxy for local settings, and the default launch for
\* absent settings or remote settings with neither URL.
C14_OneAcquisitionBySettings ==
    \A c \in Slots :
        (/\ calls[c].op = "start"
         /\ calls[c].pre.browser = 0
         /\ calls[c].pc # "import"
         /\ ~(calls[c].status = "err" /\ calls[c].err = "import failed"))
        =>
        LET log == calls[c].log
            acquisitions == {i \in DOMAIN log :
                                log[i].m \in {"connect", "connectOverCDP",
                                              "launch", "launchDefault"}}
        IN
        /\ acquisitions = {1}
        /\ log[1].obj = 0
        /\ (config.type = "remote" /\ config.wssUrl # "")
              => (log[1].m = "connect" /\ log[1].arg = config.wssUrl)
        /\ (config.type = "remote" /\ config.wssUrl = "" /\ config.cdpUrl # "")
              => (log[1].m = "connectOverCDP" /\ log[1].arg = config.cdpUrl)
        /\ config.type = "local"
              => (/\ log[1].m = "launch"
                  /\ log[1].arg = config.localChromePath
                  /\ log[1].proxy = config.proxy)
        /\ (\/ config.type = "none"
            \/ config.type = "remote" /\ config.wssUrl = "" /\ config.cdpUrl = "")
              => (log[1].m = "launchDefault" /\ log[1].arg = "")

\* A start with remote settings carrying only a CDP URL has returned.
C14_Witness ==
    \E c \in Slots :
        /\ Completed(c, "start") /\ calls[c].status = "ok"
        /\ calls[c].pre.browser = 0
        /\ config.type = "remote" /\ config.wssUrl = "" /\ config.cdpUrl # ""
        /\ calls[c].log[1].m = "connectOverCDP"

\* C15 as stated: after every successful start() the page opened by start is
\* the current tab and its id is 0.
C15_Original ==
    \A c \in Slots :
        (Completed(c, "start") /\ calls[c].status = "ok")
        =>
        /\ currentTab.page = calls[c].page
        /\ currentTab.id = 0

\* C15 amended: after every successful start() the page opened by start is
\* the current tab and its id is the next unallocated id of the session
\* object: 0 when no id was allocated on the object before, otherwise
\* greater than every id allocated before (a start that follows a close
\* does not begin again at 0).
C15_Amended ==
    \A c \in Slots :
        (Completed(c, "start") /\ calls[c].status = "ok")
        =>
        /\ calls[c].page # 0
        /\ \E i \in DOMAIN calls[c].log :
              /\ calls[c].log[i].m = "newPage"
              /\ calls[c].log[i + 1] = [m |-> "title", obj |-> calls[c].page, arg |-> ""]
        /\ currentTab.page = calls[c].page
        /\ currentTab.id = allocated[Len(allocated)]
        /\ \A i \in 1..(Len(allocated) - 1) : allocated[i] < currentTab.id
        /\ Len(allocated) = 1 => currentTab.id = 0

\* A start that followed a successful close has returned; its tab carries an
\* id above 0.
C15_Witness ==
    \E c \in Slots :
        /\ Completed(c, "start") /\ calls[c].status = "ok"
        /\ calls[c].pre.browser = 0
        /\ closedHandles # {}
        /\ currentTab.id > 0

\* C16: close() on a session that holds no browser handle (never started,
\* or already closed) returns without issuing a driver call and without
\* changing the session; so the second of two close() calls changes nothing,
\* and a close() in flight is the only driver call of its invocation, made
\* on the handle the session held and never on a handle whose close() has
\* already resolved.
C16_CloseWithoutHandle ==
    \A c \in Slots :
        (Completed(c, "close") /\ calls[c].pre.browser = 0)
        =>
        /\ calls[c].status = "ok"
        /\ calls[c].log = <<>>
        /\ Snapshot = calls[c].pre

C16_ClosedOnce ==
    \A c \in Slots :
        (calls[c].op = "close" /\ calls[c].pc = "close")
        =>
        /\ Len(calls[c].log) = 1
        /\ calls[c].log[1].m = "close"
        /\ calls[c].log[1].obj = calls[c].pre.browser
        /\ calls[c].log[1].obj \notin closedHandles

C16_CloseIdempotent == C16_CloseWithoutHandle /\ C16_ClosedOnce

\* close() has returned on a session that had been started and closed.
C16_Witness ==
    \E c \in Slots :
        /\ Completed(c, "close") /\ calls[c].status = "ok"
        /\ calls[c].pre.browser = 0
        /\ calls[c].pre.tabIdCounter > 0
        /\ closedHandles # {}

\* C17: after a successful close() on a session holding a browser handle,
\* the handle, the context and the current tab are absent and others is
\* empty; the four are cleared in the same step, so in no state, of a call
\* in flight or between calls, is the handle absent while a context, a
\* current tab or a tab of others is still held.
C17_ClosedSessionIsCleared ==
    \A c \in Slots :
        (/\ Completed(c, "close") /\ calls[c].status = "ok"
         /\ calls[c].pre.browser # 0)
        =>
        /\ browser = 0
        /\ context = 0
        /\ currentTab = NoTab
        /\ otherTabs = <<>>

C17_ClearedTogether ==
    browser = 0 =>
        /\ context = 0
        /\ currentTab = NoTab
        /\ otherTabs = <<>>

C17_CloseClearsAtomically == C17_ClosedSessionIsCleared /\ C17_ClearedTogether

\* close() has returned on a session that held a current tab and another tab.
C17_Witness ==
    \E c \in Slots :
        /\ Completed(c, "close") /\ calls[c].status = "ok"
        /\ calls[c].pre.browser # 0
        /\ calls[c].pre.currentTab # NoTab
        /\ calls[c].pre.otherTabs # <<>>
        /\ otherTabs = <<>>

\* ------------------------------------------- input primitives, screenshots
\* C11: moveMouse, clickMouse, dragMouse, scroll, pressKey, typeText and
\* takeScreenshot, called on a session with no current tab (never started,
\* or closed), each throw their 'No active page ...' error and make no
\* mouse, keyboard or page call.
C11_NoActivePage ==
    \A c \in Slots :
        (/\ calls[c].pc = "done"
         /\ calls[c].op \in {"moveMouse", "clickMouse", "dragMouse", "scroll",
                             "pressKey", "typeText", "takeScreenshot"}
         /\ calls[c].pre.currentTab = NoTab)
        =>
        /\ calls[c].status = "err"
        /\ calls[c].err =
              (CASE calls[c].op = "moveMouse" -> "No active page for mouse movement"
                 [] calls[c].op = "clickMouse" -> "No active page for mouse click"
                 [] calls[c].op = "dragMouse" -> "No active page for mouse drag"
                 [] calls[c].op = "scroll" -> "No active page for scrolling"
                 [] calls[c].op = "pressKey" -> "No active page for key press"
                 [] calls[c].op = "typeText" -> "No active page for typing"
                 [] OTHER -> "No active page to take screenshot from")
        /\ calls[c].log = <<>>
        /\ Snapshot = calls[c].pre

\* clickMouse with coordinates and modifier keys has thrown on a session
\* that had been started and closed.
C11_Witness ==
    \E c \in Slots :
        /\ Completed(c, "clickMouse") /\ calls[c].status = "err"
        /\ calls[c].pre.currentTab = NoTab
        /\ closedHandles # {}
        /\ calls[c].args.coordinates # <<>>
        /\ calls[c].args.holdKeys # <<>>

\* C12: dragMouse on a session with a current tab and a path of fewer than
\* two points throws the drag-path error without having made any call on
\* the page - no move, down or up, and no key-down - whatever modifier keys
\* were passed.
C12_DragPathTooShort ==
    \A c \in Slots :
        (/\ Completed(c, "dragMouse")
         /\ calls[c].pre.currentTab # NoTab
         /\ Len(calls[c].args.path) < 2)
        =>
        /\ calls[c].status = "err"
        /\ calls[c].err = "Drag path must contain at least two points"
        /\ calls[c].log = <<>>

\* dragMouse with a one-point path and modifier keys has thrown on a session
\* with a current tab.
C12_Witness ==
    \E c \in Slots :
        /\ Completed(c, "dragMouse") /\ calls[c].status = "err"
        /\ calls[c].pre.currentTab # NoTab
        /\ Len(calls[c].args.path) = 1
        /\ calls[c].args.holdKeys # <<>>

\* ---------------------------------------------------------- getCoordinates
\* C18: getCoordinates on a session with no current tab throws the 'no
\* active page' error.
C18_GetCoordinatesNeedsPage ==
    \A c \in Slots :
        (Completed(c, "getCoordinates") /\ calls[c].pre.currentTab = NoTab)
        =>
        /\ calls[c].status = "err"
        /\ calls[c].err = "No active page for getting coordinates"

\* C19: getCoordinates on a session with a current tab that returns has
\* taken exactly one screenshot, of the current tab's page, before it
\* returned (the screenshot it hands to the processor whose result it
\* returns).
C19_GetCoordinatesDelegates ==
    \A c \in Slots :
        (/\ Completed(c, "getCoordinates") /\ calls[c].status = "ok"
         /\ calls[c].pre.currentTab # NoTab)
        =>
        /\ Len(calls[c].log) = 1
        /\ calls[c].log[1].m = "screenshot"
        /\ calls[c].log[1].obj = calls[c].pre.currentTab.page

\* -------------------------------------------------- ScreenProcessorFactory
\* C20: whenever getScreenProcessor(n) is called for a name n under which a
\* processor has been registered, it returns the processor most recently
\* registered under exactly n, for every name string n (names that differ
\* only in letter case are distinct entries).
C20_ResolveReturnsRegistered ==
    (/\ fcall.op = "resolve" /\ fcall.given
     /\ fcall.name \in DOMAIN fcall.pre)
    => fcall.ret = fcall.pre[fcall.name]

\* C21: getScreenProcessor called with no name, or with a name under which
\* nothing was registered, returns a ClaudeScreenProcessor constructed by
\* this very call (so it is no registered processor and differs from what
\* every earlier call returned), and leaves the registry as it was.
C21_UnresolvedReturnsFreshDefault ==
    (/\ fcall.op = "resolve"
     /\ (~fcall.given \/ fcall.name \notin DOMAIN fcall.pre))
    => /\ fcall.ret.kind = "claude"
       /\ fcall.ret.id = constructed
       /\ \A n \in DOMAIN fcall.pre : fcall.pre[n] # fcall.ret
       /\ registry = fcall.pre

\* C22: registerScreenProcessor(n, P2) stores P2 under n whatever was there
\* and leaves the entry of every other name as it was; and once P2 has
\* overwritten a different processor P1 under n, getScreenProcessor(n)
\* returns P2 and not P1.
C22_RegisterStores ==
    fcall.op = "register"
    => /\ DOMAIN registry = DOMAIN fcall.pre \cup {fcall.name}
       /\ registry[fcall.name] = fcall.processor
       /\ \A n \in DOMAIN fcall.pre : n # fcall.name => registry[n] = fcall.pre[n]

C22_ResolveAfterOverwrite ==
    (/\ fcall.op = "resolve" /\ fcall.given
     /\ fcall.name \in DOMAIN replaced
     /\ replaced[fcall.name] # fcall.pre[fcall.name])
    => /\ fcall.ret = fcall.pre[fcall.name]
       /\ fcall.ret # replaced[fcall.name]

C22_RegisterOverwrites == C22_RegisterStores /\ C22_ResolveAfterOverwrite

\* ---------------------------------------------------- ClaudeScreenProcessor
\* C23: on a processor without a credential every process() call has
\* returned the empty list by the time it first suspends, for every
\* screenshot and instruction: the backend was not invoked, no cache key was
\* computed or looked up, and the cache has no entry.
C23_NoCredentialReturnsEmpty ==
    apiKey = ""
    => /\ cachedResults = <<>>
       /\ \A c \in Slots :
             pcalls[c].pc # "idle"
             => /\ pcalls[c].pc = "done"
                /\ pcalls[c].status = "ok"
                /\ pcalls[c].ret = <<>>
                /\ ~pcalls[c].invoked
                /\ ~pcalls[c].hadEntry
                /\ pcalls[c].cacheKey = ""

C23_Witness ==
    /\ apiKey = ""
    /\ \E c \in Slots : pcalls[c].pc = "done" /\ Len(pcalls[c].screenshot) > 100
    /\ \E pr \in Pairs : Len(keyLog[pr]) >= 2

\* No other (prefix, instruction) pair that stands for the same cache key
\* has been processed on the instance.
KeyUnshared(pr) ==
    \A q \in Pairs : (q # pr /\ KeyOf(q) = KeyOf(pr)) => keyLog[q] = <<>>

\* C24: a process() call whose backend response had no text block returns
\* the empty list and leaves the cache without an entry for its key; the
\* next call with that key on the instance invokes the backend again.
C24_NoTextBlockNotCached ==
    /\ \A c \in Slots :
          (/\ pcalls[c].pc = "done" /\ pcalls[c].invoked
           /\ ~pcalls[c].outcome.rejected
           /\ ~HasText(pcalls[c].outcome.content))
          => /\ pcalls[c].status = "ok"
             /\ pcalls[c].ret = <<>>
             /\ KeyOf(PairOf(pcalls[c])) \notin DOMAIN cachedResults
    /\ \A pr \in Pairs :
          KeyUnshared(pr)
          => \A i \in DOMAIN keyLog[pr] :
                (keyLog[pr][i] = "notext" /\ i < Len(keyLog[pr]))
                => Invoking(keyLog[pr][i + 1])

\* A response without a text block was followed by a second call for the
\* same key that went to the backend and got elements.
C24_Witness ==
    \E c \in Slots :
        /\ pcalls[c].pc = "done" /\ pcalls[c].invoked
        /\ pcalls[c].ret # <<>>
        /\ KeyUnshared(PairOf(pcalls[c]))
        /\ Len(keyLog[PairOf(pcalls[c])]) = 2
        /\ keyLog[PairOf(pcalls[c])][1] = "notext"

\* The backend call of a completed process() call failed: it rejected, or
\* the first text block of its response is not JSON or is JSON the schema
\* refuses.
BackendFailed(rec) ==
    /\ rec.pc = "done" /\ rec.invoked
    /\ \/ rec.outcome.rejected
       \/ /\ HasText(rec.outcome.content)
          /\ FirstText(rec.outcome.content) \in NotJsonTexts \cup SchemaInvalidTexts

C25_FailureIsCached ==
    \A c \in Slots :
        BackendFailed(pcalls[c])
        => /\ pcalls[c].ret = <<>>
           /\ KeyOf(PairOf(pcalls[c])) \in DOMAIN cachedResults
           /\ cachedResults[KeyOf(PairOf(pcalls[c]))] = <<>>

\* A step taken while the cache holds the empty list under a key keeps that
\* entry, and a process() call for that key made in the step has returned
\* the empty list without invoking the backend.
C25_EmptyEntryStays ==
    \A k \in DOMAIN cachedResults :
        cachedResults[k] = <<>>
        => /\ k \in DOMAIN cachedResults'
           /\ cachedResults'[k] = <<>>
           /\ \A c \in Slots :
                 (pcalls'[c] # pcalls[c] /\ KeyOf(PairOf(pcalls'[c])) = k)
                 => /\ pcalls'[c].pc = "done"
                    /\ pcalls'[c].status = "ok"
                    /\ pcalls'[c].ret = <<>>
                    /\ ~pcalls'[c].invoked

\* C25: after a process() call whose backend call rejected, or whose first
\* text block failed JSON parsing or schema validation, the cache holds the
\* empty list under the call's key; from then on the entry stays, and every
\* call with that key returns the empty list without invoking the backend.
C25_FailureNeverRetried == []C25_FailureIsCached /\ [][C25_EmptyEntryStays]_vars

\* After a rejected backend call, two later calls for the same screenshot
\* prefix and instruction have returned without a backend call.
C25_Witness ==
    \E c \in Slots :
        /\ pcalls[c].pc = "done" /\ ~pcalls[c].invoked /\ apiKey # ""
        /\ Len(keyLog[PairOf(pcalls[c])]) = 3
        /\ keyLog[PairOf(pcalls[c])][1] = "rejected"
        /\ keyLog[PairOf(pcalls[c])][2] = "none"

\* The text is JSON for an array whose every element has a string
\* description and a coordinate of exactly two numbers.
IsElementList(text) ==
    /\ text.wf
    /\ text.value.t = "arr"
    /\ \A i \in DOMAIN text.value.v :
          LET e == text.value.v[i] IN
          /\ e.t = "obj"
          /\ {"description", "coordinate"} \subseteq DOMAIN e.v
          /\ e.v.description.t = "str"
          /\ e.v.coordinate.t = "arr"
          /\ Len(e.v.coordinate.v) = 2
          /\ e.v.coordinate.v[1].t = "num"
          /\ e.v.coordinate.v[2].t = "num"

\* The elements of such a text, in its order: each one's description and
\* coordinate.
ElementsOf(text) ==
    [i \in DOMAIN text.value.v |->
        [description |-> text.value.v[i].v.description.v,
         coordinate |-> <<text.value.v[i].v.coordinate.v[1].v,
                          text.value.v[i].v.coordinate.v[2].v>>]]

\* C26: a process() call that went to the backend and got a response with a
\* text block is decided by the first text block alone: when it is a list
\* of elements, those elements, in order and with their descriptions and
\* coordinates, are stored under the key and returned; when it is not, the
\* empty list is stored and returned, whatever the later blocks hold.
C26_FirstTextBlockDecides ==
    \A c \in Slots :
        (/\ pcalls[c].pc = "done" /\ pcalls[c].invoked
         /\ ~pcalls[c].outcome.rejected
         /\ HasText(pcalls[c].outcome.content))
        => LET first == FirstText(pcalls[c].outcome.content)
               expected == IF IsElementList(first) THEN ElementsOf(first) ELSE <<>>
           IN /\ pcalls[c].status = "ok"
              /\ pcalls[c].ret = expected
              /\ KeyOf(PairOf(pcalls[c])) \in DOMAIN cachedResults
              /\ cachedResults[KeyOf(PairOf(pcalls[c]))] = expected

\* A call has completed on a response whose first text block, after a block
\* of another type, lists two elements, one of them with a key the schema
\* does not name.
C26_Witness ==
    \E c \in Slots :
        /\ pcalls[c].pc = "done" /\ pcalls[c].invoked
        /\ pcalls[c].outcome = Response(<<ToolUseBlock, TextBlock(TextTwoElements)>>)
        /\ Len(pcalls[c].ret) = 2
        /\ pcalls[c].ret[1].description = "Submit button"
        /\ pcalls[c].ret[2].coordinate = <<100, 200>>

\* ------------------------------------------------------------- normalizeKey
\* The fixed table, alias by alias.
AliasTargets ==
    [alt |-> "Alt_L", ctrl |-> "Control_L", control |-> "Control_L",
     meta |-> "Meta_L", super |-> "Super_L", shift |-> "Shift_L",
     enter |-> "Return", return |-> "Return"]

\* The alias a key spells, letter case aside ("" when it spells none).
AliasSpelled(key) ==
    CASE key \in {"alt", "Alt", "ALT"} -> "alt"
      [] key \in {"ctrl", "Ctrl"} -> "ctrl"
      [] key \in {"control", "CONTROL"} -> "control"
      [] key \in {"meta", "Meta"} -> "meta"
      [] key \in {"super", "SUPER"} -> "super"
      [] key \in {"shift", "Shift", "sHiFt"} -> "shift"
      [] key \in {"enter", "Enter", "ENTER"} -> "enter"
      [] key \in {"return", "Return"} -> "return"
      [] OTHER -> ""

\* C27: normalizeKey returns the table's target for a key that spells an
\* alias of the table in any letter case, returns every other key
\* unchanged, and returns the same for the same key each time.
C27_NormalizeKey ==
    /\ \A i \in DOMAIN keyCalls :
          keyCalls[i].ret = IF AliasSpelled(keyCalls[i].key) # ""
                            THEN AliasTargets[AliasSpelled(keyCalls[i].key)]
                            ELSE keyCalls[i].key
    /\ \A i, j \in DOMAIN keyCalls :
          keyCalls[i].key = keyCalls[j].key => keyCalls[i].ret = keyCalls[j].ret

\* ------------------------------------------------- input primitives: keys
\* What the fixed table makes of a key.
TableTarget(key) ==
    IF AliasSpelled(key) # "" THEN AliasTargets[AliasSpelled(key)] ELSE key

\* The method and argument of each call in a log, in order.
Issued(log) == [i \in DOMAIN log |-> <<log[i].m, log[i].arg>>]

IsPrefix(a, b) == Len(a) <= Len(b) /\ a = SubSeq(b, 1, Len(a))

\* keyboard.down for each key in order, then keyboard.up for each key in
\* reverse order, each on the key as normalized.
DownsThenUpsReversed(keys) ==
    [i \in 1..(2 * Len(keys)) |->
        IF i <= Len(keys) THEN <<"keyboard.down", TableTarget(keys[i])>>
        ELSE <<"keyboard.up", TableTarget(keys[2 * Len(keys) + 1 - i])>>]

\* C28: the keyboard calls of pressKey(keys) are a key-down for every key in
\* the given order followed by a key-up for every key in reverse order,
\* each on the normalized key: a call that returned has made exactly these
\* calls, and a call in progress or failed has made the first of them.
C28_PressKeyStack ==
    \A c \in Slots :
        (calls[c].op = "pressKey" /\ calls[c].pc # "idle")
        => /\ IsPrefix(Issued(calls[c].log), DownsThenUpsReversed(calls[c].args.keys))
           /\ (calls[c].pc = "done" /\ calls[c].status = "ok")
                 => Issued(calls[c].log) = DownsThenUpsReversed(calls[c].args.keys)

\* pressKey(['ctrl', 'Enter'], 1) has returned outside the test environment,
\* after its wait.
C28_Witness ==
    \E c \in Slots :
        /\ Completed(c, "pressKey") /\ calls[c].status = "ok"
        /\ calls[c].args.keys = <<"ctrl", "Enter">>
        /\ Len(calls[c].plan) = 5
        /\ Len(calls[c].log) = 4

\* The driver methods that make up the primary action of a primitive.
PrimaryMethods(op) ==
    CASE op = "moveMouse" -> {"mouse.move"}
      [] op = "clickMouse" -> {"mouse.down", "mouse.up"}
      [] op = "dragMouse" -> {"mouse.move", "mouse.down", "mouse.up"}
      [] op = "scroll" -> {"mouse.wheel"}
      [] op = "typeText" -> {"keyboard.type"}
      [] OTHER -> {}

\* The positions of a log at which method m was called, and those at which
\* it was called on key k.
At(log, m) == {i \in DOMAIN log : log[i].m = m}

AtKey(log, m, k) == {i \in DOMAIN log : log[i].m = m /\ log[i].arg = k}

\* C29: a moveMouse, clickMouse, dragMouse, scroll or typeText call that
\* returned has issued every key-down of its modifier keys before its
\* primary action and every key-up after it, and has pressed and released
\* each listed modifier once: a key is pressed, and released, as many times
\* as it is listed.
C29_ModifiersAroundAction ==
    \A c \in Slots :
        (/\ calls[c].pc = "done" /\ calls[c].status = "ok"
         /\ calls[c].op \in {"moveMouse", "clickMouse", "dragMouse", "scroll", "typeText"})
        => LET log == calls[c].log
               held == calls[c].args.holdKeys
               primary == {i \in DOMAIN log : log[i].m \in PrimaryMethods(calls[c].op)}
           IN /\ \A d \in At(log, "keyboard.down") : \A a \in primary : d < a
              /\ \A u \in At(log, "keyboard.up") : \A a \in primary : a < u
              /\ \A d \in At(log, "keyboard.down") : \A u \in At(log, "keyboard.up") : d < u
              /\ Cardinality(At(log, "keyboard.down")) = Len(held)
              /\ Cardinality(At(log, "keyboard.up")) = Len(held)
              /\ \A h \in DOMAIN held :
                    LET listed == Cardinality({j \in DOMAIN held :
                                     TableTarget(held[j]) = TableTarget(held[h])})
                    IN /\ Cardinality(AtKey(log, "keyboard.down", TableTarget(held[h]))) = listed
                       /\ Cardinality(AtKey(log, "keyboard.up", TableTarget(held[h]))) = listed

\* dragMouse over three points with two modifier keys has returned.
C29_Witness ==
    \E c \in Slots :
        /\ Completed(c, "dragMouse") /\ calls[c].status = "ok"
        /\ calls[c].args.holdKeys = <<"Shift", "a">>
        /\ Len(calls[c].args.path) = 3
        /\ Len(calls[c].log) = 9

\* --------------------------------------------- input primitives: clickMouse
\* The button calls of a log, in order: method and button.
ButtonCalls(log) ==
    Issued(SelectSeq(log, LAMBDA e : e.m \in {"mouse.down", "mouse.up"}))

\* The button calls the variant stands for: one down, one up, or n times
\* down then up.
VariantCalls(button, clickType, numClicks) ==
    IF clickType = "down" THEN << <<"mouse.down", button>> >>
    ELSE IF clickType = "up" THEN << <<"mouse.up", button>> >>
    ELSE [i \in 1..(2 * numClicks) |->
             <<IF i % 2 = 1 THEN "mouse.down" ELSE "mouse.up", button>>]

\* C30: the button calls of clickMouse are, for 'click' with repeat count n,
\* n downs and n ups alternating from a down; for 'down' one down and no
\* up; for 'up' one up and no down: a call that returned has made exactly
\* these, a call in progress or failed the first of them.  With
\* coordinates, one pointer move to them is made, before every button call.
C30_ClickVariants ==
    \A c \in Slots :
        (calls[c].op = "clickMouse" /\ calls[c].pc # "idle")
        => LET log == calls[c].log
               a == calls[c].args
               expected == VariantCalls(a.button, a.clickType, a.numClicks)
           IN /\ IsPrefix(ButtonCalls(log), expected)
              /\ (calls[c].pc = "done" /\ calls[c].status = "ok")
                    => /\ ButtonCalls(log) = expected
                       /\ Cardinality(At(log, "mouse.move"))
                             = IF a.coordinates # <<>> THEN 1 ELSE 0
              /\ \A i \in At(log, "mouse.move") :
                    /\ a.coordinates = <<log[i].x, log[i].y>>
                    /\ \A j \in DOMAIN log :
                          log[j].m \in {"mouse.down", "mouse.up"} => i < j
              /\ (a.coordinates # <<>> /\ ButtonCalls(log) # <<>>)
                    => At(log, "mouse.move") # {}

\* clickMouse('right', 'click', [100, 200], 2, ['Shift', 'a']) has returned.
C30_Witness ==
    \E c \in Slots :
        /\ Completed(c, "clickMouse") /\ calls[c].status = "ok"
        /\ calls[c].args.clickType = "click" /\ calls[c].args.numClicks = 2
        /\ calls[c].args.coordinates = <<100, 200>>
        /\ calls[c].args.button = "right"
        /\ Len(calls[c].log) = 9

\* ---------------------------------------------- input primitives: dragMouse
\* The pointer calls of a log, in order: method and coordinates.
PointerCalls(log) ==
    LET seq == SelectSeq(log, LAMBDA e : e.m \in {"mouse.move", "mouse.down", "mouse.up"})
    IN [i \in DOMAIN seq |-> <<seq[i].m, seq[i].x, seq[i].y>>]

\* A move to the first point, a button-down, a move to each later point in
\* path order, a button-up.
DragCalls(path) ==
    [i \in 1..(Len(path) + 2) |->
        IF i = 1 THEN <<"mouse.move", path[1][1], path[1][2]>>
        ELSE IF i = 2 THEN <<"mouse.down", 0, 0>>
        ELSE IF i = Len(path) + 2 THEN <<"mouse.up", 0, 0>>
        ELSE <<"mouse.move", path[i - 1][1], path[i - 1][2]>>]

\* The number of button-downs less the number of button-ups among the
\* first n pointer calls.
RECURSIVE Pressed(_, _)
Pressed(pointer, n) ==
    IF n = 0 THEN 0
    ELSE Pressed(pointer, n - 1)
         + (IF pointer[n][1] = "mouse.down" THEN 1
            ELSE IF pointer[n][1] = "mouse.up" THEN -1 ELSE 0)

\* C31: the pointer calls of dragMouse on a path of two or more points are
\* a move to path[0], one button-down, one move to each of path[1..] in
\* order, one button-up: a call that returned has made exactly these and
\* left the button released, a call in progress or failed the first of
\* them; every move after the first is made with the button held.
C31_DragSequence ==
    \A c \in Slots :
        (/\ calls[c].op = "dragMouse" /\ calls[c].pc # "idle"
         /\ Len(calls[c].args.path) >= 2)
        => LET pointer == PointerCalls(calls[c].log) IN
           /\ IsPrefix(pointer, DragCalls(calls[c].args.path))
           /\ \A i \in DOMAIN pointer :
                 (i > 1 /\ pointer[i][1] = "mouse.move") => Pressed(pointer, i - 1) = 1
           /\ (calls[c].pc = "done" /\ calls[c].status = "ok")
                 => /\ pointer = DragCalls(calls[c].args.path)
                    /\ Pressed(pointer, Len(pointer)) = 0

\* dragMouse over three points without modifier keys has returned.
C31_Witness ==
    \E c \in Slots :
        /\ Completed(c, "dragMouse") /\ calls[c].status = "ok"
        /\ calls[c].args.holdKeys = <<>>
        /\ calls[c].args.path = << <<0, 0>>, <<100, 100>>, <<200, 200>> >>
        /\ Len(calls[c].log) = 5

\* ------------------------------------------------------ openNewTab, failing
\* C32: openNewTab on a session without a browser context (never started,
\* closed, or whose start failed before the context was made) throws its
\* 'No browser context' error, makes no driver call, so creates no page,
\* and leaves current tab, others and id counter as they were.
C32_OpenWithoutContext ==
    \A c \in Slots :
        (calls[c].op = "openTab" /\ calls[c].pc # "idle" /\ calls[c].pre.context = 0)
        => /\ calls[c].pc = "done"
           /\ calls[c].status = "err"
           /\ calls[c].err = "No browser context available to open new tab"
           /\ calls[c].log = <<>>
           /\ calls[c].page = 0
           /\ Snapshot = calls[c].pre

\* openNewTab has thrown on a session that had been started and closed.
C32_Witness ==
    \E c \in Slots :
        /\ Completed(c, "openTab") /\ calls[c].status = "err"
        /\ calls[c].pre.context = 0
        /\ closedHandles # {}
        /\ tabIdCounter > 0

\* C37: an openNewTab that fails at a driver step (context.newPage,
\* page.goto or page.title) leaves the current tab, others and the tab id
\* counter as they were immediately before the call.
C37_FailedOpenKeepsState ==
    \A c \in Slots :
        (Completed(c, "openTab") /\ calls[c].status = "err" /\ calls[c].log # <<>>)
        => /\ currentTab = calls[c].pre.currentTab
           /\ otherTabs = calls[c].pre.otherTabs
           /\ tabIdCounter = calls[c].pre.tabIdCounter

\* ------------------------------------------------------------ close, failing
C39_FailedCloseKeepsState ==
    \A c \in Slots :
        (Completed(c, "close") /\ calls[c].status = "err")
        => /\ calls[c].pre.browser # 0
           /\ calls[c].log = <<DriverCall("close", calls[c].pre.browser, "")>>
           /\ Snapshot = calls[c].pre

\* A close() that starts right after a failed close() awaits close() on the
\* handle the failed one had tried to close.
C39_NextCloseRetries ==
    \A c, d \in Slots :
        (/\ Completed(c, "close") /\ calls[c].status = "err"
         /\ calls'[d].op = "close" /\ calls'[d].pc = "close"
         /\ calls[d].pc # "close")
        => calls'[d].log = <<DriverCall("close", calls[c].log[1].obj, "")>>

\* C39: a close() whose browser.close() rejects throws, having made that one
\* driver call, and leaves handle, context, current tab and others as they
\* were; the next close() tries to close the same handle.
C39_FailedCloseRetains == []C39_FailedCloseKeepsState /\ [][C39_NextCloseRetries]_vars

\* close() has failed on a session with a current tab and other tabs.
C39_Witness ==
    \E c \in Slots :
        /\ Completed(c, "close") /\ calls[c].status = "err"
        /\ currentTab # NoTab /\ otherTabs # <<>>
        /\ browser # 0 /\ browser \notin closedHandles

\* ------------------------------------------------------------ start, again
\* C38: a start() never drops a browser handle that has not been closed,
\* nor a tab: the handle the session held when start() was called is still
\* its handle afterwards or has been closed, and the tab that was current
\* is still listed by getTabs().
C38_StartKeepsHandleAndTabs ==
    \A c \in Slots :
        (calls[c].op = "start" /\ calls[c].pc # "idle")
        => /\ (calls[c].pre.browser # 0 /\ browser # calls[c].pre.browser)
                 => calls[c].pre.browser \in closedHandles
           /\ calls[c].pre.currentTab # NoTab
                 => \/ currentTab = calls[c].pre.currentTab
                    \/ calls[c].pre.currentTab \in Range(otherTabs)

\* ------------------------------------------- input primitives, failing midway
\* The driver calls of a completed call that resolved: all of them, or all
\* but the last when the call ended because that one rejected.
Resolved(rec) ==
    IF rec.status = "err" /\ rec.log # <<>>
    THEN SubSeq(rec.log, 1, Len(rec.log) - 1)
    ELSE rec.log

\* C36: when an input primitive has returned or thrown, every key whose
\* key-down resolved has had a key-up issued as often, and every resolved
\* button-down a button-up.  (clickMouse with variant 'down' or 'up', which
\* presses or releases alone by request, is left aside.)
C36_NothingStaysHeld ==
    \A c \in Slots :
        (/\ calls[c].pc = "done"
         /\ calls[c].op \in {"moveMouse", "clickMouse", "dragMouse", "scroll",
                             "pressKey", "typeText"}
         /\ calls[c].args.clickType \notin {"down", "up"})
        => /\ \A i \in At(Resolved(calls[c]), "keyboard.down") :
                 Cardinality(AtKey(Resolved(calls[c]), "keyboard.down", calls[c].log[i].arg))
                    <= Cardinality(AtKey(calls[c].log, "keyboard.up", calls[c].log[i].arg))
           /\ Cardinality(At(Resolved(calls[c]), "mouse.down"))
                 <= Cardinality(At(calls[c].log, "mouse.up"))

\* ------------------------------------------------------ calls overlapping
\* listTabs(): the current tab, when there is one, then the others.
Listed == (IF currentTab # NoTab THEN <<currentTab>> ELSE <<>>) \o otherTabs

\* C33: under any interleaving of overlapping openTab and switchTab calls on
\* one started session (never closed, the calls all successful), once all
\* calls have completed every tab returned by an openTab is listed exactly
\* once.
C33_NoTabLostOrDuplicated ==
    (/\ Quiet /\ browser # 0 /\ closedHandles = {}
     /\ \A c \in ConcSlots : calls[c].status # "err")
    => \A c \in ConcSlots :
          Completed(c, "openTab")
          => Cardinality({i \in DOMAIN Listed : Listed[i] = calls[c].retTab}) = 1

\* C34: in every reachable state, with close() overlapping in-flight
\* openTab calls, a session that holds no browser handle has no current tab
\* and an empty others list.
C34_ClosedSessionHoldsNoTab ==
    browser = 0 => (currentTab = NoTab /\ otherTabs = <<>>)

\* C35: every driver call issued by one invocation of moveMouse or pressKey
\* goes to the page of the tab that was current when the invocation
\* started, whatever switchTab, openTab or close call completes meanwhile.
C35_OneInvocationOnePage ==
    \A c \in ConcSlots :
        calls[c].op \in {"moveMouse", "pressKey"}
        => \A i \in DOMAIN calls[c].log :
              calls[c].log[i].obj = calls[c].pre.currentTab.page

C40_NoTwoBackendCalls ==
    \A c, d \in ConcSlots :
        (c # d /\ pcalls[c].pc = "create" /\ pcalls[d].pc = "create")
        => KeyOf(PairOf(pcalls[c])) # KeyOf(PairOf(pcalls[d]))

C40_EntryKept ==
    \A k \in DOMAIN cachedResults :
        k \in DOMAIN cachedResults' /\ cachedResults'[k] = cachedResults[k]

\* C40: on one default processor, with process() calls overlapping, a key
\* that has a cached value keeps that value for good, and two calls with
\* the same key are never both waiting for the backend.
C40_CacheWrittenOncePerKey == []C40_NoTwoBackendCalls /\ [][C40_EntryKept]_vars

==============================================================================
